---------------------------- MODULE Spec2Model ----------------------------
(***************************************************************************)
(* lmdb_sensor_storage: the ordered timestamped store (TimestampBytesDB)   *)
(* of one sub-store of one file, the sensors of a file (Sensor views, the  *)
(* Sensors catalog, the aligned export) and the environment registry       *)
(* (Manager), driven by a single-threaded caller and, for the registry,    *)
(* by concurrent threads.                                                  *)
(*                                                                         *)
(* Timestamps are whole ticks 0..MaxTime; the sub-store maps the stored    *)
(* keys (in ascending key order, as LMDB keeps them) to byte values.       *)
(* A caller invokes one public operation at a time: the operation runs to  *)
(* completion (one action per operation), leaves its arguments, the state  *)
(* it started from and its outcome in `call`, `pre` and `ret`, and the      *)
(* caller then takes the result (Return) before the next call.             *)
(***************************************************************************)
EXTENDS Integers, Sequences, FiniteSets, TLC

\* ------------------------------------------------------------------ bounds
MaxTime == 3
MaxAge == 2
MaxLimit == 2
MaxSensorTime == 1
MaxLive == 3
MaxHistory == 2
MaxBucket == 3
MaxSamples == 100
MaxDecimate == 7
MaxMicros == 255
MaxBefore == 3

Time == 0..MaxTime
Values == {"0", "1"}

\* Python's None for an omitted timestamp, max_age_seconds or limit.
None == 0 - 1
OptTime == Time \cup {None}

VARIABLES
    store,      \* the sub-store's entries: a function from its keys to values
    dbExists,   \* whether the sub-store's name is a key of the file's root map
    pc,         \* the caller: "ready" to call, or "returned" from a call
    call,       \* the operation last called and its arguments
    pre,        \* the state the last call started from
    ret,        \* the last call's outcome: what it returned or raised, and its rows
    subdbs,     \* the sensor file's root map: the names of its sub-stores
    data,       \* per sensor name, the entries of data_<name>
    history,    \* per sensor name, the values of format_<name> in key order
    views,      \* the live Sensor objects: sensor name and in-memory data_format
    meta,       \* per sensor name, the entries of meta_<name>
    notes,      \* per sensor name, the entries of notes_<name>
    synced,     \* whether env.sync() ran after the last committed change
    handles,    \* Manager.handles: real path -> environment
    live,       \* the environments that lmdb.open returned and nobody closed
    threads,    \* per thread, its position in the operation it runs
    txns        \* per thread, the transactions it has open, outermost first

sensorVars == <<subdbs, data, history, views, meta, notes>>

managerVars == <<handles, live, threads, txns>>

vars == <<store, dbExists, pc, call, pre, ret, subdbs, data, history, views,
          meta, notes, synced, handles, live, threads, txns>>

\* ----------------------------------------------------------- LMDB cursors
\* A cursor position is a key of the store, or None when the cursor is invalid.
EmptyStore == [k \in {} |-> "0"]

Keys(s) == DOMAIN s

MinOf(S) == CHOOSE x \in S : \A y \in S : x <= y

MaxOf(S) == CHOOSE x \in S : \A y \in S : y <= x

\* Cursor.first(): the smallest key, invalid on an empty store.
CursorFirst(s) == IF Keys(s) = {} THEN None ELSE MinOf(Keys(s))

\* Cursor.last(): the greatest key, invalid on an empty store.
CursorLast(s) == IF Keys(s) = {} THEN None ELSE MaxOf(Keys(s))

\* Cursor.set_range(k): the first key greater than or equal to k.
CursorSetRange(s, k) ==
    LET ge == {x \in Keys(s) : x >= k}
    IN  IF ge = {} THEN None ELSE MinOf(ge)

\* Cursor.prev() from position c: the key before c, invalid when c is the first.
CursorPrev(s, c) ==
    LET lt == {x \in Keys(s) : x < c}
    IN  IF lt = {} THEN None ELSE MaxOf(lt)

\* Cursor.next() from position c: the key after c, invalid when c is the last.
CursorNext(s, c) ==
    LET gt == {x \in Keys(s) : x > c}
    IN  IF gt = {} THEN None ELSE MinOf(gt)

\* Transaction.put(k, v): creates or overwrites.
Put(s, k, v) == [x \in Keys(s) \cup {k} |-> IF x = k THEN v ELSE s[x]]

\* Removal of the keys D.
Remove(s, D) == [x \in Keys(s) \ D |-> s[x]]

\* BytesPacker: the value packer of a TimestampBytesDB.
BytesPack(x) == x

BytesUnpack(x) == x

\* --------------------------------------------------- the sensors of a file
\* The sensor names the callers use, and the Sensor objects they hold.
SensorNames == {"a", "b"}

Views == {"v1", "v2"}

\* The sensor whose Sensor objects the callers keep.
ViewedNames == {"a"}

\* The timestamps of sensor samples.
SensorTime == 0..MaxSensorTime
OptSensorTime == SensorTime \cup {None}

\* The values written to sensors: two that float() accepts and one it rejects.
Samples == {"0", "1", "x"}

\* The format descriptors in use; NoFormat is data_format = None.
Formats == {"f", "str"}

NoFormat == "None"

\* The sub-store prefixes of a sensor, in the order Sensors.__delitem__ and
\* Sensor.copy_to go through them.
Prefixes == <<"data_", "meta_", "format_", "notes_">>

\* prefix + sensor_name: the name of a sub-store.
DbName(prefix, name) == <<prefix, name>>

\* The four sub-store names of a sensor.
SensorDbs(name) == {DbName(Prefixes[i], name) : i \in 1..Len(Prefixes)}

\* A view slot that holds no Sensor object.
NoView == [sensor_name |-> "", data_format |-> NoFormat]

\* A file without sub-stores.
EmptyFile ==
    [subdbs |-> {},
     data |-> [n \in SensorNames |-> EmptyStore],
     history |-> [n \in SensorNames |-> <<>>],
     meta |-> [n \in SensorNames |-> EmptyStore],
     notes |-> [n \in SensorNames |-> EmptyStore],
     synced |-> TRUE]

\* ------------------------------------------------- the registry's callers
\* The paths callers pass: the canonical path of the sensor file, the same
\* file relative to the working directory, and another file.
Paths == {"/srv/sensors.mdb", "sensors.mdb", "/srv/other.mdb"}

\* os.path.realpath with working directory /srv.
Realpath(path) == IF path = "sensors.mdb" THEN "/srv/sensors.mdb" ELSE path

Threads == {"t1", "t2"}

\* A thread outside every operation that holds no environment: its position,
\* the path and environment of get_environment, the cursor and the rows of the
\* transaction it iterates, the arguments of its write and whether the write
\* found the value unchanged.
IdleThread ==
    [pc |-> "idle", path |-> "", env |-> 0, cursor |-> None, rows |-> <<>>,
     date |-> None, value |-> "0", only_if_value_changed |-> FALSE,
     skip |-> FALSE]

\* ------------------------------------------------------------ the caller
NoCall ==
    [op |-> "none", date |-> None, value |-> "0",
     only_if_value_changed |-> FALSE, max_age_seconds |-> None,
     since |-> None, until |-> None, endpoint |-> FALSE, limit |-> None,
     at_timestamps |-> <<>>, at_timestamps_only |-> FALSE,
     view |-> "", sensor_name |-> "", data_format |-> NoFormat,
     sensor_names |-> <<>>, path |-> "", pairs |-> <<>>, key |-> "",
     target |-> EmptyFile, other |-> EmptyStore, note |-> EmptyStore]

NoRet == [val |-> "none", rows |-> <<>>]

Snapshot ==
    [store |-> store, dbExists |-> dbExists, subdbs |-> subdbs, data |-> data,
     history |-> history, views |-> views, handles |-> handles,
     meta |-> meta, notes |-> notes, synced |-> synced]

\* The snapshot kept while no call is in progress.
NoSnapshot ==
    [store |-> EmptyStore, dbExists |-> FALSE, subdbs |-> {},
     data |-> [n \in SensorNames |-> EmptyStore],
     history |-> [n \in SensorNames |-> <<>>],
     views |-> [v \in Views |-> NoView],
     handles |-> EmptyStore,
     meta |-> [n \in SensorNames |-> EmptyStore],
     notes |-> [n \in SensorNames |-> EmptyStore],
     synced |-> TRUE]

Init ==
    /\ store = EmptyStore
    /\ dbExists = FALSE
    /\ pc = "ready"
    /\ call = NoCall
    /\ pre = NoSnapshot
    /\ ret = NoRet
    /\ subdbs = {}
    /\ data = [n \in SensorNames |-> EmptyStore]
    /\ history = [n \in SensorNames |-> <<>>]
    /\ views = [v \in Views |-> NoView]
    /\ handles = EmptyStore
    /\ live = {}
    /\ threads = [t \in Threads |-> IdleThread]
    /\ meta = [n \in SensorNames |-> EmptyStore]
    /\ notes = [n \in SensorNames |-> EmptyStore]
    /\ synced = TRUE
    /\ txns = [t \in Threads |-> <<>>]

\* The caller takes the result of the finished call.
Return ==
    /\ pc = "returned"
    /\ pc' = "ready"
    /\ call' = NoCall
    /\ pre' = NoSnapshot
    /\ ret' = NoRet
    /\ UNCHANGED <<store, dbExists, sensorVars, managerVars, synced>>

\* ------------------------------------------------------------ write_value
\* Mutant of CursorBeforeDate: the step back after set_range is forgotten.
CursorBeforeDate_NoStepBack(s, date) ==
    IF CursorSetRange(s, date) # None
    THEN CursorSetRange(s, date)
    ELSE CursorLast(s)

\* The cursor of write_value: set_range(date), then one step back; when no key
\* is >= date, the last key.  None when that position is invalid.
CursorBeforeDate(s, date) ==
    IF CursorSetRange(s, date) # None
    THEN CursorPrev(s, CursorSetRange(s, date))
    ELSE CursorLast(s)

\* Mutant of CheckValueChangedIsRequired: an age equal to max_age still checks.
CheckValueChangedIsRequired_Inclusive(date, last_time, max_age_seconds) ==
    IF max_age_seconds # None THEN (date - last_time) <= max_age_seconds ELSE TRUE

\* (date - last_time) < timedelta(seconds=max_age_seconds), TRUE without max_age.
CheckValueChangedIsRequired(date, last_time, max_age_seconds) ==
    IF max_age_seconds # None THEN (date - last_time) < max_age_seconds ELSE TRUE

\* Mutant of WriteSkipped: the value is compared with the first entry.
WriteSkipped_ComparesFirst(s, date, value, only_if_value_changed, max_age_seconds) ==
    /\ only_if_value_changed
    /\ CursorBeforeDate(s, date) # None
    /\ CheckValueChangedIsRequired(date, CursorBeforeDate(s, date), max_age_seconds)
    /\ s[CursorFirst(s)] = BytesPack(value)

\* Whether write_value returns False before the put.
WriteSkipped(s, date, value, only_if_value_changed, max_age_seconds) ==
    /\ only_if_value_changed
    /\ CursorBeforeDate(s, date) # None
    /\ CheckValueChangedIsRequired(date, CursorBeforeDate(s, date), max_age_seconds)
    /\ s[CursorBeforeDate(s, date)] = BytesPack(value)

write_value ==
    /\ pc = "ready"
    /\ \E date \in Time, value \in Values, only \in BOOLEAN,
          age \in {None} \cup (1..MaxAge) :
          /\ call' = [NoCall EXCEPT !.op = "write_value", !.date = date,
                                    !.value = value,
                                    !.only_if_value_changed = only,
                                    !.max_age_seconds = age]
          /\ IF WriteSkipped(store, date, value, only, age)
             THEN /\ store' = store
                  /\ ret' = [val |-> "False", rows |-> <<>>]
                  /\ synced' = synced
             ELSE /\ store' = Put(store, date, BytesPack(value))
                  /\ ret' = [val |-> "True", rows |-> <<>>]
                  /\ synced' = TRUE
    /\ dbExists' = TRUE
    /\ pre' = Snapshot
    /\ pc' = "returned"
    /\ UNCHANGED <<sensorVars, managerVars>>

\* write_value(date, value, only_if_value_changed=True) as the MQTT subscriber
\* calls it without --max-age-seconds, the samples arriving in time order: no
\* date is before the last stored one.
write_value_if_changed ==
    /\ pc = "ready"
    /\ \E date \in Time, value \in Values :
          /\ date >= CursorLast(store)
          /\ call' = [NoCall EXCEPT !.op = "write_value", !.date = date,
                                    !.value = value,
                                    !.only_if_value_changed = TRUE]
          /\ IF WriteSkipped(store, date, value, TRUE, None)
             THEN /\ store' = store
                  /\ ret' = [val |-> "False", rows |-> <<>>]
                  /\ synced' = synced
             ELSE /\ store' = Put(store, date, BytesPack(value))
                  /\ ret' = [val |-> "True", rows |-> <<>>]
                  /\ synced' = TRUE
    /\ dbExists' = TRUE
    /\ pre' = Snapshot
    /\ pc' = "returned"
    /\ UNCHANGED <<sensorVars, managerVars>>

\* --------------------------------------------------------- delete_entries
\* The while loop of delete_entries from a valid cursor c whose key passed the
\* loop test.  `key` is read once before the loop and never again, so the test
\* stays true: every round deletes at the cursor (Cursor.delete() leaves the
\* cursor on the record after the deleted one), then calls Cursor.next() and
\* breaks when that fails.
RECURSIVE DeleteLoop(_, _)
DeleteLoop(s, c) ==
    LET deleted == Remove(s, {c})
        afterDelete == CursorSetRange(deleted, c)
        afterNext == IF afterDelete = None THEN None
                     ELSE CursorNext(deleted, afterDelete)
    IN  IF afterNext = None THEN deleted ELSE DeleteLoop(deleted, afterNext)

\* The transaction of delete_entries for since <= until, both given or defaulted.
DeleteTransaction(s, since, until) ==
    LET c == CursorSetRange(s, since)
    IN  IF c = None THEN [store |-> s, val |-> "False"]
        ELSE IF c <= until THEN [store |-> DeleteLoop(s, c), val |-> "True"]
        ELSE [store |-> s, val |-> "True"]

\* delete_entries(since, until): the store it leaves and what it returns or
\* raises.  A comparison of a timestamp with None (get_first_timestamp() and
\* get_last_timestamp() of an empty or missing sub-store) raises TypeError.
DeleteEntries(s, exists, since0, until0) ==
    LET first == IF exists THEN CursorFirst(s) ELSE None
        last == IF exists THEN CursorLast(s) ELSE None
        since == IF since0 = None THEN first ELSE since0
        until == IF until0 = None THEN last ELSE until0
    IN  IF since0 # None /\ last = None THEN [store |-> s, val |-> "TypeError"]
        ELSE IF since0 # None /\ since0 > last THEN [store |-> s, val |-> "False"]
        ELSE IF until0 # None /\ first = None THEN [store |-> s, val |-> "TypeError"]
        ELSE IF until0 # None /\ until0 < first THEN [store |-> s, val |-> "False"]
        ELSE IF since = None \/ until = None THEN [store |-> s, val |-> "TypeError"]
        ELSE IF ~(since <= until) THEN [store |-> s, val |-> "RuntimeError"]
        ELSE IF exists THEN DeleteTransaction(s, since, until)
        ELSE [store |-> s, val |-> "True"]

delete_entries ==
    /\ pc = "ready"
    /\ \E since \in OptTime, until \in OptTime :
          /\ call' = [NoCall EXCEPT !.op = "delete_entries", !.since = since,
                                    !.until = until]
          /\ store' = DeleteEntries(store, dbExists, since, until).store
          /\ ret' = [val |-> DeleteEntries(store, dbExists, since, until).val,
                     rows |-> <<>>]
    /\ synced' = (synced /\ store' = store)
    /\ UNCHANGED dbExists
    /\ pre' = Snapshot
    /\ pc' = "returned"
    /\ UNCHANGED <<sensorVars, managerVars>>

\* --------------------------------------------------------- DatetimePacker
\* Instants as whole microseconds relative to the epoch.
Instants == (0 - MaxBefore)..MaxMicros

\* The instants of this range for which d.timestamp() * 1e6, evaluated in
\* IEEE-754 double precision, falls just short of the whole number of
\* microseconds: 249 gives 248.99999999999997, 251 gives 250.99999999999997,
\* -2 gives -1.999999999946489 and -3 gives -2.9999999999752447.
ProductFallsShort == {249, 251, 0 - 2, 0 - 3}

\* int(as_datetime(d).timestamp() * 1e6): int() truncates towards zero.
TimestampMicros(us) ==
    IF us \in ProductFallsShort
    THEN (IF us > 0 THEN us - 1 ELSE us + 1)
    ELSE us

\* struct.pack('!Q', n): eight bytes, most significant first, for n below
\* 2^32; struct.error for a negative n.
StructPackQ(n) ==
    IF n < 0 THEN <<>>
    ELSE [i \in 1..8 |-> IF i <= 4 THEN 0 ELSE (n \div (256 ^ (8 - i))) % 256]

\* struct.unpack('!Q', key)[0]
StructUnpackQ(key) ==
    key[5] * 256 ^ 3 + key[6] * 256 ^ 2 + key[7] * 256 + key[8]

\* DatetimePacker.pack(d); <<>> stands for the struct.error it raises.
DatetimePack(us) == StructPackQ(TimestampMicros(us))

\* DatetimePacker.unpack(key): datetime.fromtimestamp(n / 1e6) rounds the
\* quotient to the nearest microsecond, which is n.
DatetimeUnpack(key) == StructUnpackQ(key)

\* The keys of two instants are packed and the first is unpacked again.
datetime_pack ==
    /\ pc = "ready"
    /\ \E t1 \in Instants, t2 \in Instants :
          /\ call' = [NoCall EXCEPT !.op = "DatetimePacker.pack",
                                    !.since = t1, !.until = t2]
          /\ ret' = [val |-> IF DatetimePack(t1) = <<>> THEN "struct.error"
                             ELSE "ok",
                     rows |-> <<DatetimePack(t1), DatetimePack(t2),
                                IF DatetimePack(t1) = <<>> THEN t1
                                ELSE DatetimeUnpack(DatetimePack(t1))>>]
    /\ pre' = Snapshot
    /\ pc' = "returned"
    /\ UNCHANGED <<store, dbExists, sensorVars, managerVars, synced>>

\* -------------------------------------------------------- get_last_changed
\* Mutant of LastChangedLoop: the c.next() before the return is forgotten.
RECURSIVE LastChangedLoop_NoStepForward(_, _, _)
LastChangedLoop_NoStepForward(s, c, last_value) ==
    IF CursorPrev(s, c) = None THEN None
    ELSE IF last_value # s[CursorPrev(s, c)] THEN CursorPrev(s, c)
    ELSE LastChangedLoop_NoStepForward(s, CursorPrev(s, c), last_value)

\* while c.prev(): if last_value != c.value(): c.next(); return the key.
\* c is the position before c.prev(); None when the loop runs off the front.
RECURSIVE LastChangedLoop(_, _, _)
LastChangedLoop(s, c, last_value) ==
    IF CursorPrev(s, c) = None THEN None
    ELSE IF last_value # s[CursorPrev(s, c)]
         THEN CursorNext(s, CursorPrev(s, c))
    ELSE LastChangedLoop(s, CursorPrev(s, c), last_value)

\* get_last_changed(): None unless the sub-store exists and c.last() succeeds.
GetLastChanged(s, exists) ==
    IF ~exists \/ CursorLast(s) = None THEN None
    ELSE LastChangedLoop(s, CursorLast(s), s[CursorLast(s)])

get_last_changed ==
    /\ pc = "ready"
    /\ call' = [NoCall EXCEPT !.op = "get_last_changed"]
    /\ ret' = [val |-> "returned", rows |-> <<GetLastChanged(store, dbExists)>>]
    /\ pre' = Snapshot
    /\ pc' = "returned"
    /\ UNCHANGED <<store, dbExists, sensorVars, managerVars, synced>>

\* ---------------------------------------------------------- _get_timespan
\* What one step of the generator yields at cursor position c.
Row(s, c, what) ==
    IF what = "keys" THEN c
    ELSE IF what = "values" THEN BytesUnpack(s[c])
    ELSE <<c, BytesUnpack(s[c])>>

\* Mutant of InTimespan: the endpoint is always included.
InTimespan_AlwaysInclusive(c, until, endpoint) == c <= until

\* The while test of _get_timespan at key c.
InTimespan(c, until, endpoint) == c < until \/ (endpoint /\ c = until)

\* Mutant of LimitAllowsNext: the loop stops one row earlier.
LimitAllowsNext_Strict(limit, count) == limit = None \/ count < limit

\* Whether the loop goes on after `count` rows, given that Cursor.next() succeeded.
LimitAllowsNext(limit, count) == limit = None \/ count <= limit

\* The while loop of _get_timespan from cursor position c with `count` rows
\* produced so far.
RECURSIVE TimespanLoop(_, _, _, _, _, _, _)
TimespanLoop(s, c, until, endpoint, limit, what, count) ==
    IF ~InTimespan(c, until, endpoint) THEN <<>>
    ELSE <<Row(s, c, what)>> \o
         (IF CursorNext(s, c) # None /\ LimitAllowsNext(limit, count + 1)
          THEN TimespanLoop(s, CursorNext(s, c), until, endpoint, limit, what,
                            count + 1)
          ELSE <<>>)

\* _get_timespan(since, until, endpoint, limit, what) consumed by list(): the
\* rows, or the RuntimeError it raises.
GetTimespan(s, since0, until0, endpoint0, limit, what) ==
    LET first == CursorFirst(s)
        last == CursorLast(s)
        since == IF since0 = None THEN first ELSE since0
        until == IF until0 = None THEN last ELSE until0
        endpoint == IF until0 = None THEN TRUE ELSE endpoint0
    IN  IF Keys(s) = {} THEN [val |-> "ok", rows |-> <<>>]
        ELSE IF since0 # None /\ since0 > last THEN [val |-> "ok", rows |-> <<>>]
        ELSE IF until0 # None /\ until0 < first THEN [val |-> "ok", rows |-> <<>>]
        ELSE IF ~(since <= until) THEN [val |-> "RuntimeError", rows |-> <<>>]
        ELSE IF CursorSetRange(s, since) = None THEN [val |-> "ok", rows |-> <<>>]
        ELSE [val |-> "ok",
              rows |-> TimespanLoop(s, CursorSetRange(s, since), until, endpoint,
                                    limit, what, 0)]

\* keys(), values() and items() of a TimestampBytesDB without decimation.
\* len(self) opens a transaction on the sub-store, and opening it creates it.
get_timespan ==
    /\ pc = "ready"
    /\ \E since \in OptTime, until \in OptTime, endpoint \in BOOLEAN,
          limit \in {None} \cup (0..MaxLimit),
          what \in {"keys", "values", "items"} :
          /\ call' = [NoCall EXCEPT !.op = what, !.since = since,
                                    !.until = until, !.endpoint = endpoint,
                                    !.limit = limit]
          /\ ret' = GetTimespan(store, since, until, endpoint, limit, what)
    /\ dbExists' = TRUE
    /\ UNCHANGED store
    /\ pre' = Snapshot
    /\ pc' = "returned"
    /\ UNCHANGED <<sensorVars, managerVars, synced>>

\* ------------------------------------------------- items(decimate_to_s=...)
\* Mutant of WindowClosed: a row at stop_date still joins the window.
WindowClosed_Late(row_date, stop_date) == row_date > stop_date

\* if row_date >= stop_date: the window is yielded and a new one begun.
WindowClosed(row_date, stop_date) == row_date >= stop_date

\* The for loop of _get_timespan_chunked from row i of the rows _get_timespan
\* yields, with n rows in the accumulator (dates, values) and the window ending
\* at stop_date.  A window is yielded only when a later row closes it; nothing
\* is yielded after the loop.
RECURSIVE ChunkLoop(_, _, _, _, _, _, _)
ChunkLoop(rows, i, n, dates, values, stop_date, decimate_to) ==
    IF i > Len(rows) THEN <<>>
    ELSE IF n > 0 /\ ~WindowClosed(rows[i][1], stop_date)
    THEN ChunkLoop(rows, i + 1, n + 1, Append(dates, rows[i][1]),
                   Append(values, rows[i][2]), stop_date, decimate_to)
    ELSE (IF n > 0 THEN <<[dates |-> dates, values |-> values]>> ELSE <<>>)
         \o ChunkLoop(rows, i + 1, 1, <<rows[i][1]>>, <<rows[i][2]>>,
                      rows[i][1] + decimate_to, decimate_to)

\* _get_timespan_chunked(decimate_to_s, since, until) for a number of seconds:
\* the windows, or the RuntimeError of _get_timespan.
GetTimespanChunked(s, decimate_to, since, until) ==
    [val |-> GetTimespan(s, since, until, TRUE, None, "items").val,
     rows |-> ChunkLoop(GetTimespan(s, since, until, TRUE, None, "items").rows,
                        1, 0, <<>>, <<>>, None, decimate_to)]

\* items(decimate_to_s=..., since=..., until=...) without chunkers: non_chunker
\* leaves the windows as they are; here they are returned window by window.
get_timespan_chunked ==
    /\ pc = "ready"
    /\ \E since \in OptTime, until \in OptTime, decimate_to \in 1..MaxBucket :
          /\ call' = [NoCall EXCEPT !.op = "_get_timespan_chunked",
                                    !.since = since, !.until = until,
                                    !.limit = decimate_to]
          /\ ret' = GetTimespanChunked(store, decimate_to, since, until)
    /\ dbExists' = TRUE
    /\ pre' = Snapshot
    /\ pc' = "returned"
    /\ UNCHANGED <<store, sensorVars, managerVars, synced>>

\* struct.unpack('f', struct.pack('f', float(x))) for a natural number x: exact
\* below 2^24, rounded to an even number from there to 2^25.
Float32(x) == IF x <= 2^24 THEN x ELSE 2 * ((x + 1) \div 2)

\* timestamp_chunker_center, the result counted in half seconds:
\* x[0] + (x[-1] - x[0]) / 2 for more than one timestamp, else x[0].
TimestampChunkerCenter(x) ==
    IF Len(x) > 1 THEN 2 * x[1] + (x[Len(x)] - x[1]) ELSE 2 * x[1]

RECURSIVE SumSeq(_)
SumSeq(x) == IF x = <<>> THEN 0 ELSE x[1] + SumSeq(Tail(x))

\* value_chunker_mean: np.mean(x) as the fraction num/den.
ValueChunkerMean(x) == [num |-> SumSeq(x), den |-> Len(x)]

\* _get_timespan_decimated with timestamp_chunker_center and value_chunker_mean:
\* one (timestamp, value) pair per window.
GetTimespanDecimated(s, decimate_to) ==
    LET windows == GetTimespanChunked(s, decimate_to, None, None).rows
    IN  [k \in 1..Len(windows) |->
            <<TimestampChunkerCenter(windows[k].dates),
              ValueChunkerMean(windows[k].values)>>]

\* s.write_values(dates, values) on an empty sensor, as in
\* test_write_read_float_decimate: n samples at 1 Hz with the values 0..n-1.
write_samples ==
    /\ pc = "ready"
    /\ store = EmptyStore
    /\ \E n \in 1..MaxSamples :
          /\ call' = [NoCall EXCEPT !.op = "write_values", !.limit = n]
          /\ store' = [i \in 0..(n - 1) |-> Float32(i)]
    /\ dbExists' = TRUE
    /\ synced' = FALSE
    /\ ret' = [val |-> "True", rows |-> <<>>]
    /\ pre' = Snapshot
    /\ pc' = "returned"
    /\ UNCHANGED <<sensorVars, managerVars>>

\* s.items(decimate_to_s=..., timestamp_chunker=timestamp_chunker_center,
\*         value_chunker=value_chunker_mean)
items_decimated ==
    /\ pc = "ready"
    /\ \E decimate_to_s \in 1..MaxDecimate :
          /\ call' = [NoCall EXCEPT !.op = "items(decimate_to_s)",
                                    !.limit = decimate_to_s]
          /\ ret' = [val |-> "ok",
                     rows |-> GetTimespanDecimated(store, decimate_to_s)]
    /\ dbExists' = TRUE
    /\ pre' = Snapshot
    /\ pc' = "returned"
    /\ UNCHANGED <<store, sensorVars, managerVars, synced>>

\* ------------------------------------------- items/values(at_timestamps=...)
\* The point query: requested timestamps (a strictly increasing, non-empty
\* sequence) answered with the last observation carried forward, merged with
\* the stored keys unless at_timestamps_only.

\* The strictly increasing sequence of the elements of a set of timestamps.
RECURSIVE SortedSeq(_)
SortedSeq(S) ==
    IF S = {} THEN <<>> ELSE <<MinOf(S)>> \o SortedSeq(S \ {MinOf(S)})

Requests == {SortedSeq(S) : S \in (SUBSET Time) \ {{}}}

\* The since/until/endpoint window; an omitted bound does not bound.
AtWindow(t, since, until, endpoint) ==
    /\ since = None \/ since <= t
    /\ until = None \/ t < until \/ (endpoint /\ t = until)

\* Mutant of CursorAtOrBefore: a stored timestamp reports its predecessor's value.
CursorAtOrBefore_Strict(s, t) ==
    IF CursorBeforeDate(s, t) # None THEN CursorBeforeDate(s, t) ELSE t

\* The greatest key <= t: the cursor on t itself, else write_value's step back.
CursorAtOrBefore(s, t) ==
    IF CursorSetRange(s, t) = t THEN t ELSE CursorBeforeDate(s, t)

\* The pair (or value) reported at timestamp t.
AtRow(s, t, what) ==
    IF what = "values" THEN BytesUnpack(s[CursorAtOrBefore(s, t)])
    ELSE <<t, BytesUnpack(s[CursorAtOrBefore(s, t)])>>

\* Requested timestamps before the first stored key have no value: skipped.
RECURSIVE SkipBeforeFirst(_, _)
SkipBeforeFirst(q, first) ==
    IF q = <<>> THEN q
    ELSE IF Head(q) < first THEN SkipBeforeFirst(Tail(q), first)
    ELSE q

\* Mutant of AtLoop: a timestamp that is requested and stored is reported twice.
RECURSIVE AtLoop_Twice(_, _, _, _, _, _, _)
AtLoop_Twice(s, q, c, since, until, endpoint, what) ==
    IF q = <<>> /\ c = None THEN <<>>
    ELSE IF c # None /\ (q = <<>> \/ c <= Head(q))
    THEN (IF AtWindow(c, since, until, endpoint)
          THEN <<AtRow(s, c, what)>> ELSE <<>>)
         \o AtLoop_Twice(s, q, CursorNext(s, c), since, until, endpoint, what)
    ELSE (IF AtWindow(Head(q), since, until, endpoint)
          THEN <<AtRow(s, Head(q), what)>> ELSE <<>>)
         \o AtLoop_Twice(s, Tail(q), c, since, until, endpoint, what)

\* The merge of the remaining requests q with the stored keys from cursor c
\* (None: no stored key left to interleave); a timestamp that is requested and
\* stored is reported once.
RECURSIVE AtLoop(_, _, _, _, _, _, _)
AtLoop(s, q, c, since, until, endpoint, what) ==
    IF q = <<>> /\ c = None THEN <<>>
    ELSE IF c # None /\ (q = <<>> \/ c < Head(q))
    THEN (IF AtWindow(c, since, until, endpoint)
          THEN <<AtRow(s, c, what)>> ELSE <<>>)
         \o AtLoop(s, q, CursorNext(s, c), since, until, endpoint, what)
    ELSE (IF AtWindow(Head(q), since, until, endpoint)
          THEN <<AtRow(s, Head(q), what)>> ELSE <<>>)
         \o AtLoop(s, Tail(q), IF c = Head(q) THEN CursorNext(s, c) ELSE c,
                   since, until, endpoint, what)

\* Mutant of AtTimestamps: requests that all precede the first stored key still
\* let the stored keys through.
AtTimestamps_StoredAnyway(s, Q, since, until, endpoint, only, what) ==
    IF Keys(s) = {} THEN <<>>
    ELSE AtLoop(s, SkipBeforeFirst(Q, CursorFirst(s)),
                IF only THEN None ELSE CursorFirst(s),
                since, until, endpoint, what)

\* The rows of items/values(at_timestamps=Q, at_timestamps_only=only, ...).
AtTimestamps(s, Q, since, until, endpoint, only, what) ==
    IF Keys(s) = {} THEN <<>>
    ELSE IF SkipBeforeFirst(Q, CursorFirst(s)) = <<>> THEN <<>>
    ELSE AtLoop(s, SkipBeforeFirst(Q, CursorFirst(s)),
                IF only THEN None ELSE CursorFirst(s),
                since, until, endpoint, what)

get_at_timestamps ==
    /\ pc = "ready"
    /\ \E Q \in Requests, since \in OptTime, until \in OptTime,
          endpoint \in BOOLEAN, only \in BOOLEAN, what \in {"values", "items"} :
          /\ call' = [NoCall EXCEPT !.op = what, !.since = since,
                                    !.until = until, !.endpoint = endpoint,
                                    !.at_timestamps = Q,
                                    !.at_timestamps_only = only]
          /\ ret' = [val |-> "ok",
                     rows |-> AtTimestamps(store, Q, since, until, endpoint,
                                           only, what)]
    /\ UNCHANGED <<store, dbExists>>
    /\ pre' = Snapshot
    /\ pc' = "returned"
    /\ UNCHANGED <<sensorVars, managerVars, synced>>

\* ------------------------------------------------------------------ Sensor
\* The sub-stores of the sensor file: the root map and the entries of the
\* data_ and format_ sub-stores (meta_ and notes_ stay empty here).
File ==
    [subdbs |-> subdbs, data |-> data, history |-> history, meta |-> meta,
     notes |-> notes, synced |-> synced]

\* try_float(x)
TryFloat(x) == x \in {"0", "1"}

\* guess_format_string(d) for a str value.
GuessFormatString(value) == IF TryFloat(value) THEN "f" ELSE "str"

\* Whether the packer that descriptor d selects accepts the value: FloatPacker
\* raises ValueError on a string that float() rejects, StringPacker takes all.
CanPack(d, value) == d = "str" \/ TryFloat(value)

\* The bytes the packer of descriptor d makes of the value: the encoding shows.
Pack(d, value) == <<d, value>>

\* datetime.now() when the format history h is written: after its last key.
Now(h) == IF Keys(h) = {} THEN 1 ELSE CursorLast(h) + 1

\* get_last_value() of the format history: None when empty or missing.
GetLastValue(h) == IF Keys(h) = {} THEN NoFormat ELSE h[CursorLast(h)]

\* _format_db.write_value(datetime.now(), d, only_if_value_changed=True)
FormatWrite(h, d) ==
    IF WriteSkipped(h, Now(h), d, TRUE, None) THEN h ELSE Put(h, Now(h), d)

\* Mutant of SetDataFormat: the descriptor is kept in memory only.
SetDataFormat_NotStored(F, name, d) == F

\* The data_format setter's effect on the file: None selects no packer and
\* stores nothing; a descriptor is written to format_<name>, which the write
\* transaction creates.
SetDataFormat(F, name, d) ==
    IF d = NoFormat THEN F
    ELSE [F EXCEPT !.subdbs = @ \cup {DbName("format_", name)},
                   !.history[name] = FormatWrite(@, d),
                   !.synced = @ \/ FormatWrite(F.history[name], d) # F.history[name]]

\* Sensor(mdb_filename, sensor_name, data_format): the descriptor given, else
\* the last value of format_<name> (read without creating the sub-store).
SensorInit(F, name, fmt) ==
    LET d == IF fmt # NoFormat THEN fmt ELSE GetLastValue(F.history[name])
    IN  [file |-> SetDataFormat(F, name, d),
         view |-> [sensor_name |-> name, data_format |-> d]]

\* Sensor.write_value: guess the descriptor when the view has none, then
\* TimestampBytesDB.write_value with the view's packer.  The write transaction
\* creates data_<name> before the value is packed.
SensorWrite(F, view, date, value, only_if_value_changed) ==
    LET name == view.sensor_name
        d == IF view.data_format = NoFormat THEN GuessFormatString(value)
             ELSE view.data_format
        F1 == IF view.data_format = NoFormat THEN SetDataFormat(F, name, d) ELSE F
        F2 == [F1 EXCEPT !.subdbs = @ \cup {DbName("data_", name)}]
        s == F2.data[name]
    IN  IF ~CanPack(d, value)
        THEN [file |-> F2, view |-> [view EXCEPT !.data_format = d],
              val |-> "ValueError"]
        ELSE IF WriteSkipped(s, date, Pack(d, value), only_if_value_changed, None)
        THEN [file |-> F2, view |-> [view EXCEPT !.data_format = d],
              val |-> "False"]
        ELSE [file |-> [F2 EXCEPT !.data[name] = Put(s, date, Pack(d, value)),
                                  !.synced = TRUE],
              view |-> [view EXCEPT !.data_format = d],
              val |-> "True"]

\* Sensor.copy_to(new_sensor_name) inside the same file: RuntimeError when a
\* sub-store of the destination exists; else LMDBDict.copy_to per prefix, whose
\* get_db opens, and so creates, the destination and the source sub-store.
\* Mutant of DestinationExists: only the data sub-store is looked for.
DestinationExists_DataOnly(G, new) == DbName("data_", new) \in G.subdbs

\* The loop of Sensor.copy_to over the four prefixes: db_exists of any
\* destination sub-store in the target file G.
DestinationExists(G, new) == SensorDbs(new) \cap G.subdbs # {}

\* get_db of the source sub-stores: open_db creates the missing ones.
OpenSourceDbs(F, name) == [F EXCEPT !.subdbs = @ \cup SensorDbs(name)]

\* Mutant of CopyDbs: the format history is not copied.
CopyDbs_NoFormat(F, G, name, new) ==
    [G EXCEPT !.subdbs = @ \cup SensorDbs(new),
              !.data[new] = F.data[name],
              !.meta[new] = F.meta[name],
              !.notes[new] = F.notes[name],
              !.synced = FALSE]

\* The four LMDBDict.copy_to calls: each creates its destination sub-store in
\* G and puts every key/value pair of the source sub-store of F into it.
CopyDbs(F, G, name, new) ==
    [G EXCEPT !.subdbs = @ \cup SensorDbs(new),
              !.data[new] = F.data[name],
              !.meta[new] = F.meta[name],
              !.history[new] = F.history[name],
              !.notes[new] = F.notes[name],
              !.synced = FALSE]

\* sensor.copy_to(new): source and destination in the same file.
SensorCopyTo(F, name, new) ==
    IF DestinationExists(F, new)
    THEN [file |-> F, val |-> "RuntimeError"]
    ELSE [file |-> CopyDbs(F, OpenSourceDbs(F, name), name, new),
          val |-> "None"]

\* sensor.copy_to(new, export_mdb_filename): the destination is in file G.
SensorExportTo(F, G, name, new) ==
    IF DestinationExists(G, new)
    THEN [src |-> F, dst |-> G, val |-> "RuntimeError"]
    ELSE [src |-> OpenSourceDbs(F, name), dst |-> CopyDbs(F, G, name, new),
          val |-> "None"]

sensor_init ==
    /\ pc = "ready"
    /\ \E v \in Views, name \in ViewedNames, fmt \in Formats \cup {NoFormat} :
          /\ call' = [NoCall EXCEPT !.op = "Sensor", !.view = v,
                                    !.sensor_name = name, !.data_format = fmt]
          /\ subdbs' = SensorInit(File, name, fmt).file.subdbs
          /\ history' = SensorInit(File, name, fmt).file.history
          /\ views' = [views EXCEPT ![v] = SensorInit(File, name, fmt).view]
          /\ synced' = SensorInit(File, name, fmt).file.synced
          /\ Cardinality(Keys(history'[name])) <= MaxHistory
    /\ ret' = [val |-> "ok", rows |-> <<>>]
    /\ UNCHANGED <<store, dbExists, data, meta, notes, managerVars>>
    /\ pre' = Snapshot
    /\ pc' = "returned"

\* The explicit descriptor change through a view: sensor.data_format = d.
sensor_set_data_format ==
    /\ pc = "ready"
    /\ \E v \in Views, d \in Formats :
          /\ views[v] # NoView
          /\ call' = [NoCall EXCEPT !.op = "data_format", !.view = v,
                                    !.sensor_name = views[v].sensor_name,
                                    !.data_format = d]
          /\ subdbs' = SetDataFormat(File, views[v].sensor_name, d).subdbs
          /\ history' = SetDataFormat(File, views[v].sensor_name, d).history
          /\ views' = [views EXCEPT ![v].data_format = d]
          /\ synced' = SetDataFormat(File, views[v].sensor_name, d).synced
          /\ Cardinality(Keys(history'[views[v].sensor_name])) <= MaxHistory
    /\ ret' = [val |-> "ok", rows |-> <<>>]
    /\ UNCHANGED <<store, dbExists, data, meta, notes, managerVars>>
    /\ pre' = Snapshot
    /\ pc' = "returned"

\* Sensor.write_value and Sensor.__setitem__ (only_if_value_changed=False).
sensor_write_value ==
    /\ pc = "ready"
    /\ \E v \in Views, date \in SensorTime, value \in Samples, only \in BOOLEAN :
          /\ views[v] # NoView
          /\ call' = [NoCall EXCEPT !.op = "Sensor.write_value", !.view = v,
                                    !.sensor_name = views[v].sensor_name,
                                    !.date = date, !.value = value,
                                    !.only_if_value_changed = only]
          /\ subdbs' = SensorWrite(File, views[v], date, value, only).file.subdbs
          /\ data' = SensorWrite(File, views[v], date, value, only).file.data
          /\ history' = SensorWrite(File, views[v], date, value, only).file.history
          /\ synced' = SensorWrite(File, views[v], date, value, only).file.synced
          /\ views' = [views EXCEPT
                          ![v] = SensorWrite(File, views[v], date, value, only).view]
          /\ ret' = [val |-> SensorWrite(File, views[v], date, value, only).val,
                     rows |-> <<>>]
          /\ Cardinality(Keys(history'[views[v].sensor_name])) <= MaxHistory
    /\ UNCHANGED <<store, dbExists, meta, notes, managerVars>>
    /\ pre' = Snapshot
    /\ pc' = "returned"

\* ----------------------------------------------------------------- Sensors
\* LMDB keeps the root map in the byte order of the sub-store names.
PrefixRank(prefix) ==
    IF prefix = "data_" THEN 1
    ELSE IF prefix = "format_" THEN 2
    ELSE IF prefix = "meta_" THEN 3
    ELSE 4

NameRank(name) == IF name = "a" THEN 1 ELSE 2

DbLess(x, y) ==
    \/ PrefixRank(x[1]) < PrefixRank(y[1])
    \/ PrefixRank(x[1]) = PrefixRank(y[1]) /\ NameRank(x[2]) < NameRank(y[2])

\* txn.cursor() over the root map: every sub-store name, in key order.
RECURSIVE RootCursor(_)
RootCursor(S) ==
    IF S = {} THEN <<>>
    ELSE LET m == CHOOSE x \in S : \A y \in S \ {x} : DbLess(x, y)
         IN  <<m>> \o RootCursor(S \ {m})

\* key_str.startswith('data_')
IsDataDb(db) == db[1] = "data_"

\* Mutant of SensorsKeys: every sub-store name yields a sensor name.
SensorsKeys_AnyPrefix(S) ==
    [i \in 1..Len(RootCursor(S)) |-> RootCursor(S)[i][2]]

\* Sensors.keys(): key_str[5:] of the root map keys that start with 'data_'.
SensorsKeys(S) ==
    LET ks == SelectSeq(RootCursor(S), IsDataDb)
    IN  [i \in 1..Len(ks) |-> ks[i][2]]

\* Manager.delete_db: drop the sub-store when it exists.
DeleteDb(F, db) ==
    IF db \notin F.subdbs THEN F
    ELSE [F EXCEPT !.subdbs = @ \ {db},
                   !.data[db[2]] = IF db[1] = "data_" THEN EmptyStore ELSE @,
                   !.meta[db[2]] = IF db[1] = "meta_" THEN EmptyStore ELSE @,
                   !.history[db[2]] = IF db[1] = "format_" THEN EmptyStore ELSE @,
                   !.notes[db[2]] = IF db[1] = "notes_" THEN EmptyStore ELSE @,
                   !.synced = FALSE]

\* Mutant of SensorsDelitem: only the data sub-store is dropped.
SensorsDelitem_DataOnly(F, name) == DeleteDb(F, DbName("data_", name))

\* del sensors[name]: delete_db for each of the four prefixes.
SensorsDelitem(F, name) ==
    DeleteDb(DeleteDb(DeleteDb(DeleteDb(F, DbName(Prefixes[1], name)),
                               DbName(Prefixes[2], name)),
                      DbName(Prefixes[3], name)),
             DbName(Prefixes[4], name))

sensors_delitem ==
    /\ pc = "ready"
    /\ \E name \in SensorNames :
          /\ call' = [NoCall EXCEPT !.op = "Sensors.__delitem__",
                                    !.sensor_name = name]
          /\ subdbs' = SensorsDelitem(File, name).subdbs
          /\ data' = SensorsDelitem(File, name).data
          /\ history' = SensorsDelitem(File, name).history
          /\ meta' = SensorsDelitem(File, name).meta
          /\ notes' = SensorsDelitem(File, name).notes
          /\ synced' = SensorsDelitem(File, name).synced
    /\ ret' = [val |-> "ok", rows |-> <<>>]
    /\ UNCHANGED <<store, dbExists, views, managerVars>>
    /\ pre' = Snapshot
    /\ pc' = "returned"

\* sensors[name][date] = value: Sensors.__getitem__ makes a Sensor object,
\* Sensor.__setitem__ writes through it, and the object is dropped.
sensors_setitem ==
    /\ pc = "ready"
    /\ \E name \in SensorNames, date \in SensorTime, value \in Samples :
          LET view == SensorInit(File, name, NoFormat).view
              w == SensorWrite(File, view, date, value, FALSE)
          IN  /\ call' = [NoCall EXCEPT !.op = "Sensors.__setitem__",
                                        !.sensor_name = name, !.date = date,
                                        !.value = value]
              /\ subdbs' = w.file.subdbs
              /\ data' = w.file.data
              /\ history' = w.file.history
              /\ synced' = w.file.synced
              /\ ret' = [val |-> w.val, rows |-> <<>>]
              /\ Cardinality(Keys(history'[name])) <= MaxHistory
    /\ UNCHANGED <<store, dbExists, views, meta, notes, managerVars>>
    /\ pre' = Snapshot
    /\ pc' = "returned"

\* sensors[name].keys(): _get_timespan on data_<name>; its len(self) opens a
\* transaction on the sub-store, and opening it creates it.
sensors_getitem_keys ==
    /\ pc = "ready"
    /\ \E name \in SensorNames :
          /\ call' = [NoCall EXCEPT !.op = "Sensor.keys", !.sensor_name = name]
          /\ subdbs' = subdbs \cup {DbName("data_", name)}
          /\ ret' = GetTimespan(data[name], None, None, FALSE, None, "keys")
    /\ UNCHANGED <<store, dbExists, data, history, views, meta, notes, managerVars, synced>>
    /\ pre' = Snapshot
    /\ pc' = "returned"

\* sensors[name].copy_to(new)
sensors_copy_to ==
    /\ pc = "ready"
    /\ \E name \in SensorNames, new \in SensorNames :
          /\ call' = [NoCall EXCEPT !.op = "Sensor.copy_to",
                                    !.sensor_name = name,
                                    !.sensor_names = <<new>>]
          /\ subdbs' = SensorCopyTo(File, name, new).file.subdbs
          /\ data' = SensorCopyTo(File, name, new).file.data
          /\ history' = SensorCopyTo(File, name, new).file.history
          /\ meta' = SensorCopyTo(File, name, new).file.meta
          /\ notes' = SensorCopyTo(File, name, new).file.notes
          /\ synced' = SensorCopyTo(File, name, new).file.synced
          /\ ret' = [val |-> SensorCopyTo(File, name, new).val, rows |-> <<>>]
    /\ UNCHANGED <<store, dbExists, views, managerVars>>
    /\ pre' = Snapshot
    /\ pc' = "returned"

sensors_keys ==
    /\ pc = "ready"
    /\ call' = [NoCall EXCEPT !.op = "Sensors.keys"]
    /\ ret' = [val |-> "ok", rows |-> SensorsKeys(subdbs)]
    /\ UNCHANGED <<store, dbExists, sensorVars, managerVars, synced>>
    /\ pre' = Snapshot
    /\ pc' = "returned"

\* ------------------------------------------------------- LMDBSensorStorage
\* The sensor selections of an export: sensor names without repetition.
Selections == {<<"a">>, <<"b">>, <<"a", "b">>, <<"b", "a">>}

\* The elements of a sequence.
Range(q) == {q[i] : i \in 1..Len(q)}

\* keys(**timespan_kwargs) of one sensor.
SensorKeys(D, name, since, until, endpoint) ==
    GetTimespan(D[name], since, until, endpoint, None, "keys")

\* _get_common_keys: the sorted union of the sensors' keys in the timespan;
\* the RuntimeError of a keys() call gets through.
GetCommonKeys(D, names, since, until, endpoint) ==
    IF \E k \in 1..Len(names) :
          SensorKeys(D, names[k], since, until, endpoint).val = "RuntimeError"
    THEN [val |-> "RuntimeError", rows |-> <<>>]
    ELSE [val |-> "ok",
          rows |-> SortedSeq(UNION {Range(SensorKeys(D, names[k], since, until,
                                                     endpoint).rows) :
                                    k \in 1..Len(names)})]

\* The shortest of the sensors' value lists.
MinLen(values) ==
    CHOOSE n \in {Len(values[k]) : k \in 1..Len(values)} :
        \A k \in 1..Len(values) : n <= Len(values[k])

\* get_csv: one value list per sensor from values(at_timestamps=keys,
\* at_timestamps_only=True), then one line per key idx made of i[idx] of every
\* list; a list shorter than keys raises IndexError at its first missing row.
\* The outcome: the time axis and, per sensor, the values of the lines written.
GetCsv(D, names, since, until, endpoint) ==
    LET keys == GetCommonKeys(D, names, since, until, endpoint)
        values == [k \in 1..Len(names) |->
                      AtTimestamps(D[names[k]], keys.rows, since, until,
                                   endpoint, TRUE, "values")]
        written == IF MinLen(values) < Len(keys.rows) THEN MinLen(values)
                   ELSE Len(keys.rows)
    IN  IF keys.val # "ok" THEN [val |-> keys.val, rows |-> <<>>]
        ELSE [val |-> IF written < Len(keys.rows) THEN "IndexError" ELSE "ok",
              rows |-> [time |-> keys.rows,
                        columns |-> [k \in 1..Len(names) |->
                                        SubSeq(values[k], 1, written)]]]

\* get_json: the time axis, then per sensor the list that
\* values(at_timestamps=keys) returns.
GetJson(D, names, since, until, endpoint) ==
    LET keys == GetCommonKeys(D, names, since, until, endpoint)
    IN  IF keys.val # "ok" THEN [val |-> keys.val, rows |-> <<>>]
        ELSE [val |-> "ok",
              rows |-> [time |-> keys.rows,
                        columns |-> [k \in 1..Len(names) |->
                                        AtTimestamps(D[names[k]], keys.rows,
                                                     since, until, endpoint,
                                                     FALSE, "values")]]]

\* self[s].keys(...) of the export creates data_<s> of every selected sensor.
get_csv ==
    /\ pc = "ready"
    /\ \E names \in Selections, since \in OptSensorTime, until \in OptSensorTime,
          endpoint \in BOOLEAN :
          /\ call' = [NoCall EXCEPT !.op = "get_csv", !.sensor_names = names,
                                    !.since = since, !.until = until,
                                    !.endpoint = endpoint]
          /\ ret' = GetCsv(data, names, since, until, endpoint)
          /\ subdbs' = subdbs \cup {DbName("data_", n) : n \in Range(names)}
    /\ UNCHANGED <<store, dbExists, data, history, views, meta, notes, managerVars, synced>>
    /\ pre' = Snapshot
    /\ pc' = "returned"

get_json ==
    /\ pc = "ready"
    /\ \E names \in Selections, since \in OptSensorTime, until \in OptSensorTime,
          endpoint \in BOOLEAN :
          /\ call' = [NoCall EXCEPT !.op = "get_json", !.sensor_names = names,
                                    !.since = since, !.until = until,
                                    !.endpoint = endpoint]
          /\ ret' = GetJson(data, names, since, until, endpoint)
          /\ subdbs' = subdbs \cup {DbName("data_", n) : n \in Range(names)}
    /\ UNCHANGED <<store, dbExists, data, history, views, meta, notes, managerVars, synced>>
    /\ pre' = Snapshot
    /\ pc' = "returned"

\* ------------------------------------------------------------ LMDBDict
\* The maps a sub-store is compared with: every map from timestamps to values.
OtherMaps == UNION {[D -> Values] : D \in SUBSET Time}

\* The loop of __eq__ and __ne__ over self.items() from cursor position c:
\* other[key] raises KeyError when other lacks the key; "differ" at the first
\* value that is not other's, "same" at the end of the store.
RECURSIVE ItemsLoop(_, _, _)
ItemsLoop(s, other, c) ==
    IF c = None THEN "same"
    ELSE IF c \notin Keys(other) THEN "KeyError"
    ELSE IF s[c] # other[c] THEN "differ"
    ELSE ItemsLoop(s, other, CursorNext(s, c))

\* LMDBDict.__eq__(other)
DictEq(s, other) ==
    IF Cardinality(Keys(s)) # Cardinality(Keys(other)) THEN "False"
    ELSE IF ItemsLoop(s, other, CursorFirst(s)) = "KeyError" THEN "KeyError"
    ELSE IF ItemsLoop(s, other, CursorFirst(s)) = "differ" THEN "False"
    ELSE "True"

\* LMDBDict.__ne__(other)
DictNe(s, other) ==
    IF Cardinality(Keys(s)) # Cardinality(Keys(other)) THEN "True"
    ELSE IF ItemsLoop(s, other, CursorFirst(s)) = "KeyError" THEN "KeyError"
    ELSE IF ItemsLoop(s, other, CursorFirst(s)) = "differ" THEN "True"
    ELSE "False"

\* db == other: len(self) opens the sub-store, which creates it.
dict_eq ==
    /\ pc = "ready"
    /\ \E other \in OtherMaps :
          /\ call' = [NoCall EXCEPT !.op = "__eq__", !.other = other]
          /\ ret' = [val |-> DictEq(store, other), rows |-> <<>>]
    /\ dbExists' = TRUE
    /\ UNCHANGED <<store, sensorVars, managerVars, synced>>
    /\ pre' = Snapshot
    /\ pc' = "returned"

\* db != other
dict_ne ==
    /\ pc = "ready"
    /\ \E other \in OtherMaps :
          /\ call' = [NoCall EXCEPT !.op = "__ne__", !.other = other]
          /\ ret' = [val |-> DictNe(store, other), rows |-> <<>>]
    /\ dbExists' = TRUE
    /\ UNCHANGED <<store, sensorVars, managerVars, synced>>
    /\ pre' = Snapshot
    /\ pc' = "returned"

\* LMDBDict.__delitem__(key): nothing happens when the sub-store does not
\* exist; KeyError when it exists and lacks the key.
DictDelitem(s, exists, key) ==
    IF ~exists THEN [store |-> s, val |-> "None"]
    ELSE IF CursorSetRange(s, key) # None /\ CursorSetRange(s, key) = key
    THEN [store |-> Remove(s, {key}), val |-> "None"]
    ELSE [store |-> s, val |-> "KeyError"]

\* del db[key]
dict_delitem ==
    /\ pc = "ready"
    /\ \E key \in Time :
          /\ call' = [NoCall EXCEPT !.op = "__delitem__", !.date = key]
          /\ store' = DictDelitem(store, dbExists, key).store
          /\ ret' = [val |-> DictDelitem(store, dbExists, key).val,
                     rows |-> <<>>]
    /\ synced' = (synced /\ store' = store)
    /\ UNCHANGED <<dbExists, sensorVars, managerVars>>
    /\ pre' = Snapshot
    /\ pc' = "returned"

\* LMDBDict.popitem(): KeyError when len(self) is 0, else the entry at
\* cursor.last() is returned and deleted.
DictPopitem(s) ==
    IF Cardinality(Keys(s)) = 0 THEN [store |-> s, val |-> "KeyError", rows |-> <<>>]
    ELSE [store |-> Remove(s, {CursorLast(s)}), val |-> "ok",
          rows |-> <<CursorLast(s), s[CursorLast(s)]>>]

\* db.popitem(): len(self) opens the sub-store, which creates it.
dict_popitem ==
    /\ pc = "ready"
    /\ call' = [NoCall EXCEPT !.op = "popitem"]
    /\ store' = DictPopitem(store).store
    /\ ret' = [val |-> DictPopitem(store).val, rows |-> DictPopitem(store).rows]
    /\ dbExists' = TRUE
    /\ synced' = (synced /\ store' = store)
    /\ UNCHANGED <<sensorVars, managerVars>>
    /\ pre' = Snapshot
    /\ pc' = "returned"

\* ---------------------------------------------- bulk writes, notes, copies
\* The batches of (date, value) pairs given to write_values: one pair, two
\* keys, a repeated key, a string, and a number followed by a string.
Batches ==
    {<<[date |-> 0, value |-> "1"]>>,
     <<[date |-> 0, value |-> "0"], [date |-> 1, value |-> "1"]>>,
     <<[date |-> 1, value |-> "0"], [date |-> 1, value |-> "1"]>>,
     <<[date |-> 1, value |-> "x"]>>,
     <<[date |-> 0, value |-> "1"], [date |-> 1, value |-> "x"]>>}

\* Mutant of TxnPut: a stored key keeps its value.
TxnPut_NoOverwrite(s, k, v) == IF k \in Keys(s) THEN s ELSE Put(s, k, v)

\* txn.put(key, value) with the default overwrite=True.
TxnPut(s, k, v) == Put(s, k, v)

\* The loop of LMDBDict.update inside its write transaction: pack and put pair
\* after pair; a value the packer rejects raises out of the loop.
RECURSIVE UpdateLoop(_, _, _)
UpdateLoop(s, pairs, d) ==
    IF pairs = <<>> THEN [store |-> s, val |-> "True"]
    ELSE IF ~CanPack(d, Head(pairs).value) THEN [store |-> s, val |-> "ValueError"]
    ELSE UpdateLoop(TxnPut(s, Head(pairs).date, Pack(d, Head(pairs).value)),
                    Tail(pairs), d)

\* LMDBDict.update: the transaction commits when the loop ends and aborts,
\* undoing its puts, when the loop raises.
Update(s, pairs, d) ==
    IF UpdateLoop(s, pairs, d).val = "True"
    THEN UpdateLoop(s, pairs, d)
    ELSE [store |-> s, val |-> UpdateLoop(s, pairs, d).val]

\* Sensor.write_values(dates, values) through a view.
SensorWriteValues(F, view, pairs) ==
    LET name == view.sensor_name
        d == IF view.data_format = NoFormat
             THEN GuessFormatString(pairs[1].value)
             ELSE view.data_format
        F1 == IF view.data_format = NoFormat THEN SetDataFormat(F, name, d) ELSE F
        F2 == [F1 EXCEPT !.subdbs = @ \cup {DbName("data_", name)}]
        u == Update(F2.data[name], pairs, d)
    IN  [file |-> [F2 EXCEPT !.data[name] = u.store,
                             !.synced = @ /\ u.store = F2.data[name]],
         view |-> [view EXCEPT !.data_format = d],
         val |-> u.val]

\* sensors[name].write_values(dates, values)
sensors_write_values ==
    /\ pc = "ready"
    /\ \E name \in SensorNames, pairs \in Batches :
          LET w == SensorWriteValues(File, SensorInit(File, name, NoFormat).view,
                                     pairs)
          IN  /\ call' = [NoCall EXCEPT !.op = "Sensor.write_values",
                                        !.sensor_name = name, !.pairs = pairs]
              /\ subdbs' = w.file.subdbs
              /\ data' = w.file.data
              /\ history' = w.file.history
              /\ synced' = w.file.synced
              /\ ret' = [val |-> w.val, rows |-> <<>>]
              /\ Cardinality(Keys(history'[name])) <= MaxHistory
    /\ UNCHANGED <<store, dbExists, views, meta, notes, managerVars>>
    /\ pre' = Snapshot
    /\ pc' = "returned"

\* The metadata keys and values, and the notes, that callers write.
MetaKeys == {"unit"}

MetaValues == {"C"}

NoteValues == {"n"}

\* The timestamps notes are written at.
NoteTimes == {MinOf(SensorTime)}

\* LMDBDict.__setitem__: nothing is done when the key already holds the value;
\* otherwise the sub-store is opened, the pair is put and the file synced.
DictSetitem(F, db, s, key, value) ==
    IF db \in F.subdbs /\ key \in Keys(s) /\ s[key] = value
    THEN [file |-> F, store |-> s]
    ELSE [file |-> [F EXCEPT !.subdbs = @ \cup {db}, !.synced = TRUE],
          store |-> Put(s, key, value)]

\* sensors[name].metadata[key] = value
sensors_metadata_setitem ==
    /\ pc = "ready"
    /\ \E name \in SensorNames, key \in MetaKeys, value \in MetaValues :
          LET w == DictSetitem(File, DbName("meta_", name), meta[name], key,
                               value)
          IN  /\ call' = [NoCall EXCEPT !.op = "metadata.__setitem__",
                                        !.sensor_name = name, !.key = key,
                                        !.value = value]
              /\ subdbs' = w.file.subdbs
              /\ meta' = [meta EXCEPT ![name] = w.store]
              /\ synced' = w.file.synced
    /\ ret' = [val |-> "None", rows |-> <<>>]
    /\ UNCHANGED <<store, dbExists, data, history, views, notes, managerVars>>
    /\ pre' = Snapshot
    /\ pc' = "returned"

\* sensors[name].notes[date] = value for a string: TimestampNotesDB.__setitem__
\* stores {'short': value} through write_value(only_if_value_changed=False).
sensors_notes_setitem ==
    /\ pc = "ready"
    /\ \E name \in SensorNames, date \in NoteTimes, value \in NoteValues :
          /\ call' = [NoCall EXCEPT !.op = "notes.__setitem__",
                                    !.sensor_name = name, !.date = date,
                                    !.value = value]
          /\ subdbs' = subdbs \cup {DbName("notes_", name)}
          /\ notes' = [notes EXCEPT
                          ![name] = Put(@, date, [short |-> value])]
    /\ synced' = TRUE
    /\ ret' = [val |-> "None", rows |-> <<>>]
    /\ UNCHANGED <<store, dbExists, data, history, views, meta, managerVars>>
    /\ pre' = Snapshot
    /\ pc' = "returned"

\* The Python values written to a notes sub-store.  A mapping is the function
\* from its keys to its strings; a string, an integer and None are the function
\* from the name of their type to their text.
PyStr(text) == [str |-> text]

PyInt == [int |-> "3"]

PyNone == [none |-> ""]

IsStr(v) == DOMAIN v = {"str"}

IsDict(v) == DOMAIN v \cap {"str", "int", "none"} = {}

NoteInputs ==
    {PyStr("n"), PyStr(""), PyInt, EmptyStore, [short |-> "n"], [short |-> ""],
     [long |-> "l"], [short |-> "n", long |-> "l"]}

\* yaml.safe_load of a text: the empty document is None, a plain word a string.
YamlLoad(text) == IF text = "" THEN PyNone ELSE PyStr(text)

\* What YamlPacker.unpack gives back for YamlPacker.pack(x): a string is parsed
\* as a YAML document and dumped again, everything else is dumped as it is.
YamlPack(x) == IF IsStr(x) THEN YamlLoad(x.str) ELSE x

\* TimestampBytesDB.write_value(date, value) on notes_<name> with its default
\* only_if_value_changed=False: pack, open the sub-store, put, sync.
NotesWriteValue(F, name, date, value) ==
    [F EXCEPT !.subdbs = @ \cup {DbName("notes_", name)},
              !.notes[name] = Put(@, date, YamlPack(value)),
              !.synced = TRUE]

\* TimestampNotesDB.__setitem__(key, value)
NotesSetitem(F, name, key, value) ==
    IF IsStr(value)
    THEN [file |-> NotesWriteValue(F, name, key, [short |-> value.str]),
          val |-> "None"]
    ELSE IF IsDict(value)
    THEN IF "short" \in DOMAIN value
         THEN [file |-> NotesWriteValue(F, name, key, value), val |-> "None"]
         ELSE [file |-> F, val |-> "AssertionError"]
    ELSE [file |-> F, val |-> "TypeError"]

\* sensors[name].notes[date] = value for any value
notes_setitem ==
    /\ pc = "ready"
    /\ \E name \in SensorNames, date \in NoteTimes, value \in NoteInputs :
          /\ call' = [NoCall EXCEPT !.op = "TimestampNotesDB.__setitem__",
                                    !.sensor_name = name, !.date = date,
                                    !.note = value]
          /\ subdbs' = NotesSetitem(File, name, date, value).file.subdbs
          /\ notes' = NotesSetitem(File, name, date, value).file.notes
          /\ synced' = NotesSetitem(File, name, date, value).file.synced
          /\ ret' = [val |-> NotesSetitem(File, name, date, value).val,
                     rows |-> <<>>]
    /\ UNCHANGED <<store, dbExists, data, history, views, meta, managerVars>>
    /\ pre' = Snapshot
    /\ pc' = "returned"

\* add_note(short, long, timestamp): data = {'short': short}, data['long'] =
\* long when long is truthy, then self[timestamp] = data.
AddNote(F, name, short, long, timestamp) ==
    NotesSetitem(F, name, timestamp,
                 IF long # "" THEN [short |-> short, long |-> long]
                 ELSE [short |-> short])

\* sensors[name].notes.add_note(short, long, date)
notes_add_note ==
    /\ pc = "ready"
    /\ \E name \in SensorNames, date \in NoteTimes, short \in {"n", ""},
          long \in {"", "l"} :
          /\ call' = [NoCall EXCEPT !.op = "add_note", !.sensor_name = name,
                                    !.date = date,
                                    !.note = [short |-> short, long |-> long]]
          /\ subdbs' = AddNote(File, name, short, long, date).file.subdbs
          /\ notes' = AddNote(File, name, short, long, date).file.notes
          /\ synced' = AddNote(File, name, short, long, date).file.synced
          /\ ret' = [val |-> AddNote(File, name, short, long, date).val,
                     rows |-> <<>>]
    /\ UNCHANGED <<store, dbExists, data, history, views, meta, managerVars>>
    /\ pre' = Snapshot
    /\ pc' = "returned"

\* sensors[name].notes.write_value(date, value), inherited from
\* TimestampBytesDB.
notes_write_value ==
    /\ pc = "ready"
    /\ \E name \in SensorNames, date \in NoteTimes, value \in NoteInputs :
          /\ call' = [NoCall EXCEPT !.op = "notes.write_value",
                                    !.sensor_name = name, !.date = date,
                                    !.note = value]
          /\ subdbs' = NotesWriteValue(File, name, date, value).subdbs
          /\ notes' = NotesWriteValue(File, name, date, value).notes
          /\ synced' = NotesWriteValue(File, name, date, value).synced
    /\ ret' = [val |-> "True", rows |-> <<>>]
    /\ UNCHANGED <<store, dbExists, data, history, views, meta, managerVars>>
    /\ pre' = Snapshot
    /\ pc' = "returned"

\* sensors[name].notes.update({date: value}), inherited from LMDBDict: the
\* packed value is put without a sync.
notes_update ==
    /\ pc = "ready"
    /\ \E name \in SensorNames, date \in NoteTimes, value \in NoteInputs :
          /\ call' = [NoCall EXCEPT !.op = "notes.update",
                                    !.sensor_name = name, !.date = date,
                                    !.note = value]
          /\ subdbs' = subdbs \cup {DbName("notes_", name)}
          /\ notes' = [notes EXCEPT
                          ![name] = TxnPut(@, date, YamlPack(value))]
    /\ synced' = FALSE
    /\ ret' = [val |-> "True", rows |-> <<>>]
    /\ UNCHANGED <<store, dbExists, data, history, views, meta, managerVars>>
    /\ pre' = Snapshot
    /\ pc' = "returned"

\* The states of the file a sensor is exported to: empty, holding a sensor
\* with samples, or holding only a sensor's metadata.
TargetFiles ==
    {EmptyFile}
    \cup {SensorWriteValues(EmptyFile, SensorInit(EmptyFile, n, NoFormat).view,
                            pairs).file :
             n \in SensorNames,
             pairs \in {b \in Batches : Len(b) = 1 /\ b[1].value # "x"}}
    \cup {DictSetitem(EmptyFile, DbName("meta_", n), EmptyStore, k, v).file :
             n \in SensorNames, k \in MetaKeys, v \in MetaValues}

\* sensors[name].copy_to(new, other_file), the other file being in state G;
\* the state it is left in is the call's outcome.
sensors_copy_to_file ==
    /\ pc = "ready"
    /\ \E name \in SensorNames, new \in SensorNames, G \in TargetFiles :
          /\ call' = [NoCall EXCEPT !.op = "Sensor.copy_to(file)",
                                    !.sensor_name = name,
                                    !.sensor_names = <<new>>, !.target = G]
          /\ subdbs' = SensorExportTo(File, G, name, new).src.subdbs
          /\ ret' = [val |-> SensorExportTo(File, G, name, new).val,
                     rows |-> <<SensorExportTo(File, G, name, new).dst>>]
    /\ UNCHANGED <<store, dbExists, data, history, views, meta, notes, synced,
                   managerVars>>
    /\ pre' = Snapshot
    /\ pc' = "returned"

\* ----------------------------------------------------------------- Manager
\* The identities of environments.
EnvIds == 1..(MaxLive + Cardinality(Threads))

\* The identity lmdb.open gives a new environment: one that nothing refers to.
FreshEnv ==
    LET used == {e.id : e \in live} \cup {threads[t].env : t \in Threads}
                \cup {handles[p] : p \in DOMAIN handles}
    IN  MinOf(EnvIds \ used)

\* get_environment, line 37: mdb_filename = os.path.realpath(mdb_filename)
get_environment_call ==
    \E t \in Threads, path \in Paths :
        /\ threads[t].pc \in {"idle", "done", "raised"}
        /\ threads' = [threads EXCEPT
                          ![t] = [IdleThread EXCEPT !.pc = "check",
                                                    !.path = Realpath(path)]]
        /\ UNCHANGED <<store, dbExists, pc, call, pre, ret, sensorVars, synced,
                       handles, live, txns>>

\* line 38: if mdb_filename not in self.handles
NotInHandles(t) == threads[t].path \notin DOMAIN handles

get_environment_check ==
    \E t \in Threads :
        /\ threads[t].pc = "check"
        /\ threads' = [threads EXCEPT
                          ![t].pc = IF NotInHandles(t) THEN "open" ELSE "return"]
        /\ UNCHANGED <<store, dbExists, pc, call, pre, ret, sensorVars, synced,
                       handles, live, txns>>

\* line 40, right-hand side: lmdb.open(mdb_filename, ...)
get_environment_open ==
    \E t \in Threads :
        /\ threads[t].pc = "open"
        /\ Cardinality(live) < MaxLive
        /\ live' = live \cup {[path |-> threads[t].path, id |-> FreshEnv]}
        /\ threads' = [threads EXCEPT ![t].pc = "store", ![t].env = FreshEnv]
        /\ UNCHANGED <<store, dbExists, pc, call, pre, ret, sensorVars, synced,
                       handles, txns>>

\* line 40, assignment: self.handles[mdb_filename] = <the new environment>
get_environment_store ==
    \E t \in Threads :
        /\ threads[t].pc = "store"
        /\ handles' = Put(handles, threads[t].path, threads[t].env)
        /\ threads' = [threads EXCEPT ![t].pc = "return"]
        /\ UNCHANGED <<store, dbExists, pc, call, pre, ret, sensorVars, synced,
                       live, txns>>

\* line 47: return self.handles[mdb_filename]; KeyError when a close took the
\* entry away in between.
get_environment_return ==
    \E t \in Threads :
        /\ threads[t].pc = "return"
        /\ threads' = [threads EXCEPT
                          ![t].pc = IF threads[t].path \in DOMAIN handles
                                    THEN "done" ELSE "raised",
                          ![t].env = IF threads[t].path \in DOMAIN handles
                                     THEN handles[threads[t].path] ELSE 0]
        /\ UNCHANGED <<store, dbExists, pc, call, pre, ret, sensorVars, synced,
                       handles, live, txns>>

\* Manager.close(mdb_filename): pops and closes the environment registered
\* under the path as given.
ManagerClose(path) ==
    IF path \in DOMAIN handles
    THEN [handles |-> Remove(handles, {path}),
          live |-> live \ {[path |-> path, id |-> handles[path]]}]
    ELSE [handles |-> handles, live |-> live]

manager_close ==
    /\ pc = "ready"
    /\ \E path \in Paths :
          /\ call' = [NoCall EXCEPT !.op = "Manager.close", !.path = path]
          /\ handles' = ManagerClose(path).handles
          /\ live' = ManagerClose(path).live
    /\ ret' = [val |-> "ok", rows |-> <<>>]
    /\ UNCHANGED <<store, dbExists, sensorVars, synced, threads, txns>>
    /\ pre' = Snapshot
    /\ pc' = "returned"

\* LMDBDict.close_file() of a view constructed with `path`: the view keeps the
\* real path and closes that.
close_file ==
    /\ pc = "ready"
    /\ \E path \in Paths :
          /\ call' = [NoCall EXCEPT !.op = "close_file", !.path = path]
          /\ handles' = ManagerClose(Realpath(path)).handles
          /\ live' = ManagerClose(Realpath(path)).live
    /\ ret' = [val |-> "ok", rows |-> <<>>]
    /\ UNCHANGED <<store, dbExists, sensorVars, synced, threads, txns>>
    /\ pre' = Snapshot
    /\ pc' = "returned"

\* Manager.close_all(): closes every registered environment, empties handles.
close_all ==
    /\ pc = "ready"
    /\ call' = [NoCall EXCEPT !.op = "close_all"]
    /\ handles' = EmptyStore
    /\ live' = {e \in live :
                   ~(e.path \in DOMAIN handles /\ handles[e.path] = e.id)}
    /\ ret' = [val |-> "ok", rows |-> <<>>]
    /\ UNCHANGED <<store, dbExists, sensorVars, synced, threads, txns>>
    /\ pre' = Snapshot
    /\ pc' = "returned"

\* ----------------------------------------------------------- transactions
\* Mutant of WriterLockFree: write transactions do not exclude each other.
WriterLockFree_NoLock(t) == t \in Threads

\* env.begin(write=True) takes the environment's writer lock: it waits while
\* another thread has a write transaction open.
WriterLockFree(t) ==
    \A u \in Threads \ {t} : \A i \in 1..Len(txns[u]) : txns[u][i] # "write"

\* A timespan read, keys(), by a thread: _get_timespan reaches
\* manager.get_transaction(..., write=True) when the sub-store exists.
timespan_call ==
    \E t \in Threads :
        /\ threads[t].pc = "idle"
        /\ dbExists
        /\ threads' = [threads EXCEPT ![t].pc = "rd_open_db"]
        /\ UNCHANGED <<store, dbExists, pc, call, pre, ret, sensorVars, synced,
                       handles, live, txns>>

\* get_transaction: db = env.open_db(db_name)
timespan_open_db ==
    \E t \in Threads :
        /\ threads[t].pc = "rd_open_db"
        /\ threads' = [threads EXCEPT ![t].pc = "rd_begin"]
        /\ UNCHANGED <<store, dbExists, pc, call, pre, ret, sensorVars, synced,
                       handles, live, txns>>

\* get_transaction: env.begin(db=db, write=True), then c.first() and
\* c.set_range(since) with since the first timestamp.
timespan_begin ==
    \E t \in Threads :
        /\ threads[t].pc = "rd_begin"
        /\ WriterLockFree(t)
        /\ txns' = [txns EXCEPT ![t] = Append(@, "write")]
        /\ threads' = [threads EXCEPT ![t].pc = "reading",
                                      ![t].cursor = CursorFirst(store),
                                      ![t].rows = <<>>]
        /\ UNCHANGED <<store, dbExists, pc, call, pre, ret, sensorVars, synced,
                       handles, live>>

\* One turn of the loop: yield the key, c.next().
timespan_next ==
    \E t \in Threads :
        /\ threads[t].pc = "reading"
        /\ threads[t].cursor # None
        /\ threads' = [threads EXCEPT
                          ![t].rows = Append(@, threads[t].cursor),
                          ![t].cursor = CursorNext(store, threads[t].cursor)]
        /\ UNCHANGED <<store, dbExists, pc, call, pre, ret, sensorVars, synced,
                       handles, live, txns>>

\* The loop ends, the with block commits the transaction.
timespan_end ==
    \E t \in Threads :
        /\ threads[t].pc = "reading"
        /\ threads[t].cursor = None
        /\ txns' = [txns EXCEPT ![t] = SubSeq(@, 1, Len(@) - 1)]
        /\ threads' = [threads EXCEPT ![t] = IdleThread]
        /\ UNCHANGED <<store, dbExists, pc, call, pre, ret, sensorVars, synced,
                       handles, live>>

\* write_value(date, value) by a thread.
thread_write_call ==
    \E t \in Threads, date \in Time, value \in Values :
        /\ threads[t].pc = "idle"
        /\ threads' = [threads EXCEPT ![t].pc = "wr_open_db",
                                      ![t].date = date, ![t].value = value]
        /\ UNCHANGED <<store, dbExists, pc, call, pre, ret, sensorVars, synced,
                       handles, live, txns>>

\* get_transaction: db = env.open_db(db_name), creating the sub-store.
thread_write_open_db ==
    \E t \in Threads :
        /\ threads[t].pc = "wr_open_db"
        /\ dbExists' = TRUE
        /\ threads' = [threads EXCEPT ![t].pc = "wr_begin"]
        /\ UNCHANGED <<store, pc, call, pre, ret, sensorVars, synced,
                       handles, live, txns>>

\* get_transaction: env.begin(db=db, write=True)
thread_write_begin ==
    \E t \in Threads :
        /\ threads[t].pc = "wr_begin"
        /\ WriterLockFree(t)
        /\ txns' = [txns EXCEPT ![t] = Append(@, "write")]
        /\ threads' = [threads EXCEPT ![t].pc = "wr_check"]
        /\ UNCHANGED <<store, dbExists, pc, call, pre, ret, sensorVars, synced,
                       handles, live>>

\* Inside the transaction: the cursor is moved before `date` and the value
\* there is compared with the packed value.
thread_write_check ==
    \E t \in Threads :
        /\ threads[t].pc = "wr_check"
        /\ threads' = [threads EXCEPT
                          ![t].pc = "wr_put",
                          ![t].skip = WriteSkipped(store, threads[t].date,
                                                   threads[t].value,
                                                   threads[t].only_if_value_changed,
                                                   None)]
        /\ UNCHANGED <<store, dbExists, pc, call, pre, ret, sensorVars, synced,
                       handles, live, txns>>

\* Either `return False` or txn.put; the with block commits the transaction;
\* after a put, env.sync().  The flags returned by the conditional writes of
\* the threads are collected in ret.rows.
thread_write_commit ==
    \E t \in Threads :
        /\ threads[t].pc = "wr_put"
        /\ IF threads[t].skip
           THEN UNCHANGED <<store, synced>>
           ELSE /\ store' = Put(store, threads[t].date,
                                BytesPack(threads[t].value))
                /\ synced' = TRUE
        /\ ret' = IF threads[t].only_if_value_changed
                  THEN [ret EXCEPT
                           !.rows = Append(@, [thread |-> t,
                                               date |-> threads[t].date,
                                               value |-> threads[t].value,
                                               result |-> ~threads[t].skip])]
                  ELSE ret
        /\ txns' = [txns EXCEPT ![t] = SubSeq(@, 1, Len(@) - 1)]
        /\ threads' = [threads EXCEPT ![t] = IdleThread]
        /\ UNCHANGED <<dbExists, pc, call, pre, sensorVars, handles, live>>

\* Each thread makes as many conditional writes as there are threads.
CallsPerThread == Cardinality(Threads)

\* The calls of thread t whose flags have been returned.
ReturnedTo(t) == SelectSeq(ret.rows, LAMBDA e : e.thread = t)

\* write_value(date, value, only_if_value_changed=True) by a thread that has
\* made fewer than CallsPerThread such calls.
concurrent_write_call ==
    \E t \in Threads, date \in SensorTime, value \in Values :
        /\ threads[t].pc = "idle"
        /\ Len(ReturnedTo(t)) < CallsPerThread
        /\ threads' = [threads EXCEPT ![t].pc = "wr_open_db",
                                      ![t].date = date, ![t].value = value,
                                      ![t].only_if_value_changed = TRUE]
        /\ UNCHANGED <<store, dbExists, pc, call, pre, ret, sensorVars, synced,
                       handles, live, txns>>

\* Sensors.values() by a thread: Sensors._get opens a read transaction on the
\* environment and walks the root map as the transaction sees it.
sensors_values_begin ==
    \E t \in Threads :
        /\ threads[t].pc = "idle"
        /\ txns' = [txns EXCEPT ![t] = Append(@, "read")]
        /\ threads' = [threads EXCEPT ![t].pc = "sv_iter",
                                      ![t].rows = RootCursor(subdbs),
                                      ![t].cursor = 1]
        /\ UNCHANGED <<store, dbExists, pc, call, pre, ret, sensorVars, synced,
                       handles, live>>

\* One turn of the loop.  For a 'data_' key a Sensor is constructed inside the
\* with block; its __init__ reads format_<name> with get_last_value, which
\* calls get_transaction when db_exists finds the sub-store.
sensors_values_next ==
    \E t \in Threads :
        /\ threads[t].pc = "sv_iter"
        /\ threads[t].cursor <= Len(threads[t].rows)
        /\ IF /\ IsDataDb(threads[t].rows[threads[t].cursor])
              /\ DbName("format_", threads[t].rows[threads[t].cursor][2])
                 \in subdbs
           THEN threads' = [threads EXCEPT ![t].pc = "sv_open_db"]
           ELSE threads' = [threads EXCEPT ![t].cursor = @ + 1]
        /\ UNCHANGED <<store, dbExists, pc, call, pre, ret, sensorVars, synced,
                       handles, live, txns>>

\* get_transaction of get_last_value: env.open_db('format_<name>'), then the
\* read of the last value; the Sensor is yielded.
sensors_values_open_db ==
    \E t \in Threads :
        /\ threads[t].pc = "sv_open_db"
        /\ threads' = [threads EXCEPT ![t].pc = "sv_iter", ![t].cursor = @ + 1]
        /\ UNCHANGED <<store, dbExists, pc, call, pre, ret, sensorVars, synced,
                       handles, live, txns>>

\* The root map is exhausted, the with block ends the read transaction.
sensors_values_end ==
    \E t \in Threads :
        /\ threads[t].pc = "sv_iter"
        /\ threads[t].cursor > Len(threads[t].rows)
        /\ txns' = [txns EXCEPT ![t] = SubSeq(@, 1, Len(@) - 1)]
        /\ threads' = [threads EXCEPT ![t] = IdleThread]
        /\ UNCHANGED <<store, dbExists, pc, call, pre, ret, sensorVars, synced,
                       handles, live>>

\* ------------------------------------------------------------------- next
\* The caller using every operation.
Next ==
    \/ write_value
    \/ delete_entries
    \/ get_timespan
    \/ get_at_timestamps
    \/ Return

Spec == Init /\ [][Next]_vars

\* The caller that writes and deletes.
NextWrite ==
    \/ write_value
    \/ delete_entries
    \/ Return

SpecWrite == Init /\ [][NextWrite]_vars

\* The caller that writes, deletes and reads timespans.
NextTimespan ==
    \/ write_value
    \/ delete_entries
    \/ get_timespan
    \/ Return

SpecTimespan == Init /\ [][NextTimespan]_vars

\* The caller that writes, deletes and queries at given timestamps.
NextAt ==
    \/ write_value
    \/ delete_entries
    \/ get_at_timestamps
    \/ Return

SpecAt == Init /\ [][NextAt]_vars

\* The caller that builds sensors and exports them.
NextExport ==
    \/ sensors_setitem
    \/ get_csv
    \/ get_json
    \/ Return

SpecExport == Init /\ [][NextExport]_vars

\* Threads in get_environment and a caller that closes environments.
NextManager ==
    \/ get_environment_call
    \/ get_environment_check
    \/ get_environment_open
    \/ get_environment_store
    \/ get_environment_return
    \/ manager_close
    \/ close_file
    \/ close_all
    \/ Return

SpecManager == Init /\ [][NextManager]_vars

\* The catalog of one file: writes, reads, copies and deletes by name.
NextCatalog ==
    \/ sensors_setitem
    \/ sensors_getitem_keys
    \/ sensors_copy_to
    \/ sensors_delitem
    \/ sensors_keys
    \/ Return

SpecCatalog == Init /\ [][NextCatalog]_vars

\* Two Sensor objects of one sensor, kept by their callers, and the catalog's
\* delete.
NextSensor ==
    \/ sensor_init
    \/ sensor_set_data_format
    \/ sensor_write_value
    \/ sensors_delitem
    \/ Return

SpecSensor == Init /\ [][NextSensor]_vars

\* Sensors that are written in bulk, annotated, copied and deleted.
NextCopy ==
    \/ sensors_write_values
    \/ sensors_metadata_setitem
    \/ sensors_notes_setitem
    \/ sensors_copy_to
    \/ sensors_copy_to_file
    \/ sensors_delitem
    \/ Return

SpecCopy == Init /\ [][NextCopy]_vars

\* One sub-store used as a plain map.
NextDict ==
    \/ write_value
    \/ dict_eq
    \/ dict_ne
    \/ dict_delitem
    \/ dict_popitem
    \/ Return

SpecDict == Init /\ [][NextDict]_vars

\* Threads that read a timespan of, and write to, one sub-store.
NextLock ==
    \/ timespan_call
    \/ timespan_open_db
    \/ timespan_begin
    \/ timespan_next
    \/ timespan_end
    \/ thread_write_call
    \/ thread_write_open_db
    \/ thread_write_begin
    \/ thread_write_check
    \/ thread_write_commit

SpecLock == Init /\ [][NextLock]_vars

\* Threads that enumerate the catalog's sensors while a caller writes and
\* deletes sensors.
NextTxn ==
    \/ sensors_values_begin
    \/ sensors_values_next
    \/ sensors_values_open_db
    \/ sensors_values_end
    \/ sensors_write_values
    \/ sensors_delitem
    \/ Return

SpecTxn == Init /\ [][NextTxn]_vars

\* Writes, deletes and the reads of the last change.
NextChanged ==
    \/ write_value
    \/ delete_entries
    \/ get_last_changed
    \/ Return

SpecChanged == Init /\ [][NextChanged]_vars

\* The writes to the notes of the sensors.
NextNotes ==
    \/ notes_setitem
    \/ notes_add_note
    \/ notes_write_value
    \/ notes_update
    \/ Return

SpecNotes == Init /\ [][NextNotes]_vars

\* Writes and the decimated reads, window by window.
NextChunked ==
    \/ write_value
    \/ get_timespan_chunked
    \/ Return

SpecChunked == Init /\ [][NextChunked]_vars

\* A sensor sampled at 1 Hz and its decimated reads.
NextDecimate ==
    \/ write_samples
    \/ items_decimated
    \/ Return

SpecDecimate == Init /\ [][NextDecimate]_vars

\* The packing of timestamps into keys.
NextPacker ==
    \/ datetime_pack
    \/ Return

SpecPacker == Init /\ [][NextPacker]_vars

\* A store written only by write_value(only_if_value_changed=True) in time
\* order.
NextMonotone ==
    \/ write_value_if_changed
    \/ Return

SpecMonotone == Init /\ [][NextMonotone]_vars

\* Threads that call write_value(only_if_value_changed=True) concurrently.
NextSerial ==
    \/ concurrent_write_call
    \/ thread_write_open_db
    \/ thread_write_begin
    \/ thread_write_check
    \/ thread_write_commit

SpecSerial == Init /\ [][NextSerial]_vars

\* ----------------------------------------------------------------- claims
\* The keys of s strictly before t.
Earlier(s, t) == {k \in Keys(s) : k < t}

\* s1 is s0 with (t, v) stored and every other entry as it was.
StoredInto(s0, s1, t, v) ==
    /\ Keys(s1) = Keys(s0) \cup {t}
    /\ s1[t] = v
    /\ \A k \in Keys(s0) \ {t} : s1[k] = s0[k]

\* The last call left the file as it found it.
FileUnchanged == store = pre.store /\ dbExists = pre.dbExists

Returned(op) == pc = "returned" /\ call.op = op

C3_ExistingDateUpdated ==
    (Returned("write_value") /\ call.date \in Keys(pre.store))
    => /\ store[call.date] = BytesPack(call.value)
       /\ Cardinality(Keys(store)) = Cardinality(Keys(pre.store))

\* The window of the last delete_entries call, an omitted bound being the
\* first/last key the store held.
DeleteSince == IF call.since = None THEN MinOf(Keys(pre.store)) ELSE call.since

DeleteUntil == IF call.until = None THEN MaxOf(Keys(pre.store)) ELSE call.until

\* C6: after delete_entries(since, until) with since <= until overlapping the
\* stored data returns, no stored key t with since <= t <= until remains,
\* however many entries were inside the window.
C6_WindowEmptied ==
    (/\ Returned("delete_entries")
     /\ ret.val \in {"True", "False"}
     /\ Keys(pre.store) # {})
    => ((/\ DeleteSince <= DeleteUntil
         /\ \E k \in Keys(pre.store) : DeleteSince <= k /\ k <= DeleteUntil)
        => \A k \in Keys(store) : ~(DeleteSince <= k /\ k <= DeleteUntil))

\* C7: delete_entries changes nothing when it selects no data: it raises
\* RuntimeError whenever since > until, in every store state, and it returns
\* False whenever the requested window lies entirely outside the stored data,
\* also on an empty or never-created store.
C7_NothingSelected ==
    Returned("delete_entries")
    => LET inverted == /\ call.since # None
                       /\ call.until # None
                       /\ call.since > call.until
           outside == \/ Keys(pre.store) = {}
                      \/ call.since # None /\ call.since > MaxOf(Keys(pre.store))
                      \/ call.until # None /\ call.until < MinOf(Keys(pre.store))
       IN  /\ inverted => (ret.val = "RuntimeError" /\ FileUnchanged)
           /\ (~inverted /\ outside) => (ret.val = "False" /\ FileUnchanged)

\* The last call was keys(), values() or items() over a timespan.
TimespanCall ==
    /\ pc = "returned"
    /\ call.op \in {"keys", "values", "items"}
    /\ call.at_timestamps = <<>>

\* The stored keys t with since <= t < until (t <= until with endpoint or
\* without until), an omitted since not bounding.
Selected(s, since, until, endpoint) ==
    {k \in Keys(s) : /\ since = None \/ since <= k
                     /\ \/ until = None
                        \/ k < until
                        \/ endpoint /\ k = until}

\* The entries of s at the timestamps ts, in the order of ts, as `what` reports them.
EntriesAt(s, ts, what) ==
    [i \in 1..Len(ts) |->
        IF what = "keys" THEN ts[i]
        ELSE IF what = "values" THEN s[ts[i]]
        ELSE <<ts[i], s[ts[i]]>>]

\* The entries the last timespan call selects, in increasing timestamp order.
SelectedEntries ==
    EntriesAt(pre.store,
              SortedSeq(Selected(pre.store, call.since, call.until, call.endpoint)),
              call.op)

\* The last timespan call asked for since > until on a window that touches the
\* stored span.
InvertedInsideSpan ==
    /\ Keys(pre.store) # {}
    /\ call.since # None
    /\ call.until # None
    /\ call.since > call.until
    /\ call.since <= MaxOf(Keys(pre.store))
    /\ call.until >= MinOf(Keys(pre.store))

\* C4 as stated: with limit unset, keys/values/items(since, until, endpoint)
\* return exactly the stored entries with since <= t < until (t <= until with
\* endpoint=True or without until), each once, in increasing timestamp order.
C4_ExactlyTheWindow ==
    (TimespanCall /\ call.limit = None)
    => ret.val = "ok" /\ ret.rows = SelectedEntries

\* C4 as amended: the same, for every call that does not ask for since > until
\* on a window touching the stored span; such a call raises RuntimeError.
C4_ExactlyTheWindowOrRaise ==
    (TimespanCall /\ call.limit = None)
    => IF InvertedInsideSpan
       THEN ret.val = "RuntimeError"
       ELSE /\ ret.val = "ok"
            /\ ret.rows = SelectedEntries
            /\ call.op = "keys"
               => \A i, j \in 1..Len(ret.rows) :
                     i < j => ret.rows[i] < ret.rows[j]
            /\ call.op = "items"
               => \A i, j \in 1..Len(ret.rows) :
                     i < j => ret.rows[i][1] < ret.rows[j][1]

\* keys(since=t1, until=t2, endpoint=True) for stored t1 < t2 returned t2 last.
C4_Witness ==
    /\ TimespanCall
    /\ call.limit = None
    /\ call.op = "keys"
    /\ call.endpoint
    /\ call.since \in Keys(pre.store)
    /\ call.until \in Keys(pre.store)
    /\ call.since < call.until
    /\ Len(ret.rows) >= 2
    /\ ret.rows[Len(ret.rows)] = call.until
    /\ \E k \in Keys(pre.store) : k > call.until

\* C5 as stated: keys/values/items(limit=n) produce at most n rows.
C5_AtMostLimitRows ==
    (TimespanCall /\ call.limit # None) => Len(ret.rows) <= call.limit

\* C5 as amended: keys/values/items(limit=n) produce the first n + 1 rows of
\* the unlimited result, or all of them when there are fewer.
C5_FirstLimitPlusOneRows ==
    (TimespanCall /\ call.limit # None /\ ret.val = "ok")
    => /\ Len(ret.rows) <= call.limit + 1
       /\ ret.rows =
            SubSeq(SelectedEntries, 1,
                   IF Len(SelectedEntries) < call.limit + 1
                   THEN Len(SelectedEntries) ELSE call.limit + 1)

\* limit=1 cut a longer result to two rows.
C5_Witness ==
    /\ TimespanCall
    /\ call.limit = 1
    /\ Len(ret.rows) = 2
    /\ Len(SelectedEntries) > 2

\* The last call was items() or values() with at_timestamps.
AtCall ==
    /\ pc = "returned"
    /\ call.op \in {"values", "items"}
    /\ call.at_timestamps # <<>>

\* The requested timestamps of the last call.
Requested == {call.at_timestamps[i] : i \in 1..Len(call.at_timestamps)}

\* t lies inside the since/until/endpoint window of the last call.
InsideWindow(t) ==
    /\ call.since = None \/ call.since <= t
    /\ \/ call.until = None
       \/ t < call.until
       \/ call.endpoint /\ t = call.until

\* The store held a sample at or before t.
HasSampleAtOrBefore(t) == \E k \in Keys(pre.store) : k <= t

\* The value of the greatest stored timestamp <= t.
Locf(t) == pre.store[MaxOf({k \in Keys(pre.store) : k <= t})]

\* The timestamps the last point query reports: the requested timestamps that
\* have a stored sample at or before them and, unless at_timestamps_only, the
\* stored keys, all inside the window; nothing when no requested timestamp has
\* a stored sample at or before it.
Reported ==
    IF \A tq \in Requested : ~HasSampleAtOrBefore(tq) THEN {}
    ELSE {t \in Requested \cup (IF call.at_timestamps_only THEN {}
                                ELSE Keys(pre.store)) :
             InsideWindow(t) /\ HasSampleAtOrBefore(t)}

\* C8: for every requested timestamp tq at or after the first stored timestamp
\* and inside the since/until window, the pair reported for tq by
\* items/values(at_timestamps=...) carries the value of the greatest stored
\* timestamp <= tq, also when that stored timestamp lies before `since`.
C8_LastObservationCarriedForward ==
    (AtCall /\ Keys(pre.store) # {})
    => \A tq \in Requested :
          (tq >= MinOf(Keys(pre.store)) /\ InsideWindow(tq))
          => IF call.op = "items"
             THEN \E i \in 1..Len(ret.rows) :
                     /\ ret.rows[i] = <<tq, Locf(tq)>>
                     /\ \A j \in 1..Len(ret.rows) :
                           ret.rows[j][1] = tq => j = i
             ELSE /\ Len(ret.rows) = Cardinality(Reported)
                  /\ \A i \in 1..Len(ret.rows) :
                        SortedSeq(Reported)[i] = tq => ret.rows[i] = Locf(tq)

\* A requested timestamp inside the window answered with the value of a sample
\* stored before `since`, which differs from the next sample's value.
C8_Witness ==
    /\ AtCall
    /\ call.op = "items"
    /\ call.since # None
    /\ \E tq \in Requested :
          /\ InsideWindow(tq)
          /\ tq \notin Keys(pre.store)
          /\ \E k \in Keys(pre.store) :
                /\ k < call.since
                /\ \A m \in Keys(pre.store) : m <= tq => m <= k
                /\ \E i \in 1..Len(ret.rows) : ret.rows[i] = <<tq, pre.store[k]>>
                /\ \E n \in Keys(pre.store) : n > tq /\ pre.store[n] # pre.store[k]

ExportCall ==
    /\ pc = "returned"
    /\ call.op \in {"get_csv", "get_json"}

\* Sensor `name` held a sample at or before t when the last call started.
SensorHasSample(name, t) == \E k \in Keys(pre.data[name]) : k <= t

\* The value of the sensor's greatest stored timestamp <= t.
SensorLocf(name, t) ==
    pre.data[name][MaxOf({k \in Keys(pre.data[name]) : k <= t})]

\* C11: in get_csv and get_json, for every selection of sensors and every index
\* i of the merged time axis, the i-th value emitted for each sensor is that
\* sensor's LOCF value at the i-th merged timestamp, so every sensor's value
\* column is as long as the time axis.
C11_ValuesAlignedToTime ==
    (ExportCall /\ ret.val # "RuntimeError")
    => /\ ret.val = "ok"
       /\ \A k \in 1..Len(call.sensor_names) :
             /\ Len(ret.rows.columns[k]) = Len(ret.rows.time)
             /\ \A i \in 1..Len(ret.rows.time) :
                   /\ i <= Len(ret.rows.columns[k])
                   /\ SensorHasSample(call.sensor_names[k], ret.rows.time[i])
                   /\ ret.rows.columns[k][i]
                      = SensorLocf(call.sensor_names[k], ret.rows.time[i])

\* C12: under any interleaving of get_environment calls for paths that resolve
\* to the same real path, the environment is opened at most once while it stays
\* registered (no two open environments of one real path), and the callers
\* receive the same handle.
C12_OpenedOncePerRealPath ==
    /\ \A e1 \in live, e2 \in live : e1.path = e2.path => e1 = e2
    /\ \A t \in Threads, u \in Threads :
          (/\ threads[t].pc = "done"
           /\ threads[u].pc = "done"
           /\ threads[t].path = threads[u].path
           /\ [path |-> threads[t].path, id |-> threads[t].env] \in live
           /\ [path |-> threads[u].path, id |-> threads[u].env] \in live)
          => threads[t].env = threads[u].env

\* C13: after Manager.close(path), close_file() or close_all() the registry
\* holds no handle for the file the path resolves to.
C13_ClosedPathNotRegistered ==
    [][(pc = "ready" /\ pc' = "returned")
       => /\ call'.op \in {"Manager.close", "close_file"}
             => Realpath(call'.path) \notin DOMAIN handles'
          /\ call'.op = "close_all" => DOMAIN handles' = {}]_vars

\* C14: a read (here keys()) on a view whose sub-store does not exist returns
\* an empty result and leaves the set of sub-stores of the file unchanged, so
\* the name read does not appear in Sensors.keys() afterwards.
C14_ReadsCreateNothing ==
    (/\ pc = "returned"
     /\ call.op = "Sensor.keys"
     /\ DbName("data_", call.sensor_name) \notin pre.subdbs)
    => /\ ret.rows = <<>>
       /\ subdbs = pre.subdbs
       /\ SensorsKeys(subdbs) = SensorsKeys(pre.subdbs)

\* C15: after any sequence of sensor writes, copies and deletes, Sensors.keys()
\* holds a name exactly when data_<name> exists, each name once, in the order
\* of the root map.
C15_KeysAreDataDbs ==
    (pc = "returned" /\ call.op = "Sensors.keys")
    => /\ \A name \in SensorNames :
             (\E i \in 1..Len(ret.rows) : ret.rows[i] = name)
             <=> DbName("data_", name) \in subdbs
       /\ \A i \in 1..Len(ret.rows), j \in 1..Len(ret.rows) :
             i < j => NameRank(ret.rows[i]) < NameRank(ret.rows[j])

\* Sensors.keys() listed both sensors of a file that also holds other
\* sub-stores of theirs.
C15_Witness ==
    /\ pc = "returned"
    /\ call.op = "Sensors.keys"
    /\ ret.rows = <<"a", "b">>
    /\ DbName("format_", "a") \in subdbs
    /\ DbName("notes_", "b") \in subdbs

\* C16: after `del sensors[name]` none of the four sub-stores of the name
\* exists, the sub-stores of every other sensor and their content are
\* unchanged, and the call succeeds, changing nothing, when the sub-stores
\* are already missing.
C16_DelitemDropsAllFour ==
    (pc = "returned" /\ call.op = "Sensors.__delitem__")
    => /\ ret.val = "ok"
       /\ SensorDbs(call.sensor_name) \cap subdbs = {}
       /\ \A other \in SensorNames \ {call.sensor_name} :
             /\ SensorDbs(other) \cap subdbs = SensorDbs(other) \cap pre.subdbs
             /\ data[other] = pre.data[other]
             /\ history[other] = pre.history[other]
       /\ SensorDbs(call.sensor_name) \cap pre.subdbs = {}
          => /\ subdbs = pre.subdbs
             /\ data = pre.data
             /\ history = pre.history

\* A sensor that had some but not all of its four sub-stores was deleted
\* while another sensor held data.
C16_Witness ==
    /\ pc = "returned"
    /\ call.op = "Sensors.__delitem__"
    /\ DbName("data_", call.sensor_name) \in pre.subdbs
    /\ DbName("format_", call.sensor_name) \in pre.subdbs
    /\ DbName("meta_", call.sensor_name) \notin pre.subdbs
    /\ \E other \in SensorNames \ {call.sensor_name} :
          /\ Keys(data[other]) # {}
          /\ DbName("data_", other) \in subdbs

\* C17: in every state a caller can observe, the four sub-stores of a sensor
\* either all exist or none exists.
C17_AllFourOrNone ==
    \A name \in SensorNames :
        \/ SensorDbs(name) \cap subdbs = {}
        \/ SensorDbs(name) \subseteq subdbs

\* C18: after every completed operation, the data_format of every live Sensor
\* view equals the most recent value in format_<name> (both absent when the
\* sensor is unfmt), so two views of one sensor report the same data_format.
C18_ViewMatchesHistory ==
    \A v \in Views :
        views[v] # NoView
        => views[v].data_format = GetLastValue(history[views[v].sensor_name])

\* C19: in every reachable state every value stored in data_<name> was packed
\* with the sensor's current format descriptor, the latest format-history
\* entry.
C19_DataUnderCurrentFormat ==
    \A name \in SensorNames :
        \A k \in Keys(data[name]) :
            data[name][k][1] = GetLastValue(history[name])

\* C20: a write through a view of an unfmt sensor leaves the format history
\* with the one entry guess_format_string(value); a write through a view of a
\* fixed sensor leaves the format history as it was.
C20_WriteFollowsStateMachine ==
    (pc = "returned" /\ call.op = "Sensor.write_value")
    => /\ GetLastValue(pre.history[call.sensor_name]) = NoFormat
          => /\ Cardinality(Keys(history[call.sensor_name])) = 1
             /\ GetLastValue(history[call.sensor_name])
                = GuessFormatString(call.value)
       /\ GetLastValue(pre.history[call.sensor_name]) # NoFormat
          => history[call.sensor_name] = pre.history[call.sensor_name]

\* C21: Sensor.copy_to raises RuntimeError when any one of the four
\* destination sub-stores exists in the target file, and then copies nothing:
\* the target file (the sensor's own file or another file) is unchanged.
C21_CopyToExistingRaises ==
    /\ (/\ pc = "returned"
        /\ call.op = "Sensor.copy_to"
        /\ SensorDbs(call.sensor_names[1]) \cap pre.subdbs # {})
       => /\ ret.val = "RuntimeError"
          /\ subdbs = pre.subdbs
          /\ data = pre.data
          /\ meta = pre.meta
          /\ history = pre.history
          /\ notes = pre.notes
    /\ (/\ pc = "returned"
        /\ call.op = "Sensor.copy_to(file)"
        /\ SensorDbs(call.sensor_names[1]) \cap call.target.subdbs # {})
       => /\ ret.val = "RuntimeError"
          /\ ret.rows[1] = call.target

\* A sensor with samples was copied to a file that held only the metadata
\* sub-store of the destination name, and the copy was refused.
C21_Witness ==
    /\ pc = "returned"
    /\ call.op = "Sensor.copy_to(file)"
    /\ Keys(data[call.sensor_name]) # {}
    /\ call.target.subdbs = {DbName("meta_", call.sensor_names[1])}
    /\ ret.val = "RuntimeError"

\* C22: after a successful Sensor.copy_to(n'), in the same file or to another
\* file, the four sub-stores of n' exist and hold the key/value pairs of the
\* source's sub-stores, and a new view of n' reports the data_format of a new
\* view of the source.
C22_CopyIdentity ==
    /\ (pc = "returned" /\ call.op = "Sensor.copy_to" /\ ret.val = "None")
       => /\ SensorDbs(call.sensor_names[1]) \subseteq subdbs
          /\ data[call.sensor_names[1]] = pre.data[call.sensor_name]
          /\ meta[call.sensor_names[1]] = pre.meta[call.sensor_name]
          /\ history[call.sensor_names[1]] = pre.history[call.sensor_name]
          /\ notes[call.sensor_names[1]] = pre.notes[call.sensor_name]
          /\ data[call.sensor_names[1]] = data[call.sensor_name]
          /\ SensorInit(File, call.sensor_names[1], NoFormat).view.data_format
             = SensorInit(File, call.sensor_name, NoFormat).view.data_format
    /\ (pc = "returned" /\ call.op = "Sensor.copy_to(file)" /\ ret.val = "None")
       => /\ SensorDbs(call.sensor_names[1]) \subseteq ret.rows[1].subdbs
          /\ ret.rows[1].data[call.sensor_names[1]] = data[call.sensor_name]
          /\ ret.rows[1].meta[call.sensor_names[1]] = meta[call.sensor_name]
          /\ ret.rows[1].history[call.sensor_names[1]]
             = history[call.sensor_name]
          /\ ret.rows[1].notes[call.sensor_names[1]] = notes[call.sensor_name]
          /\ SensorInit(ret.rows[1], call.sensor_names[1], NoFormat)
                .view.data_format
             = SensorInit(File, call.sensor_name, NoFormat).view.data_format

\* A sensor with samples, a descriptor, metadata and a note was copied to
\* another file that already held a different sensor.
C22_Witness ==
    /\ pc = "returned"
    /\ call.op = "Sensor.copy_to(file)"
    /\ ret.val = "None"
    /\ Cardinality(Keys(data[call.sensor_name])) > 1
    /\ Keys(meta[call.sensor_name]) # {}
    /\ Keys(history[call.sensor_name]) # {}
    /\ Keys(notes[call.sensor_name]) # {}
    /\ call.target.subdbs # {}

\* C23: a == b returns True exactly when the two maps hold the same key/value
\* pairs and False otherwise, without raising; a != b returns the negation.
C23_EqIffSamePairs ==
    /\ (pc = "returned" /\ call.op = "__eq__")
       => ret.val = IF pre.store = call.other THEN "True" ELSE "False"
    /\ (pc = "returned" /\ call.op = "__ne__")
       => ret.val = IF pre.store = call.other THEN "False" ELSE "True"

\* C24: `del db[k]` for a key that is not stored raises KeyError and leaves
\* the store unchanged, also when the sub-store does not exist yet; for a
\* stored key it removes exactly that entry.
C24_DelitemAbsentRaises ==
    (pc = "returned" /\ call.op = "__delitem__")
    => IF call.date \in Keys(pre.store)
       THEN ret.val = "None" /\ store = Remove(pre.store, {call.date})
       ELSE /\ ret.val = "KeyError"
            /\ store = pre.store
            /\ dbExists = pre.dbExists

\* C25: popitem() on a non-empty map returns the entry with the greatest key
\* and removes exactly that entry; on an empty or never-created map it raises
\* KeyError and changes nothing.
C25_PopitemLast ==
    (pc = "returned" /\ call.op = "popitem")
    => IF Keys(pre.store) # {}
       THEN /\ ret.val = "ok"
            /\ ret.rows = <<MaxOf(Keys(pre.store)),
                            pre.store[MaxOf(Keys(pre.store))]>>
            /\ store = Remove(pre.store, {MaxOf(Keys(pre.store))})
       ELSE /\ ret.val = "KeyError"
            /\ store = pre.store
            /\ dbExists = pre.dbExists

\* The index of the last pair of the call's batch that carries the key k.
LastIndexOf(k) ==
    MaxOf({i \in 1..Len(call.pairs) : call.pairs[i].date = k})

\* The keys the call's batch gives.
GivenKeys == {call.pairs[i].date : i \in 1..Len(call.pairs)}

\* C26: after write_values (LMDBDict.update) returns True, every given key
\* maps to its given value, the last one when the key repeats, overwriting
\* what was stored, and every other key keeps its previous value.
C26_UpdateStoresEveryPair ==
    (pc = "returned" /\ call.op = "Sensor.write_values" /\ ret.val = "True")
    => /\ Keys(data[call.sensor_name])
          = Keys(pre.data[call.sensor_name]) \cup GivenKeys
       /\ \A k \in GivenKeys :
             data[call.sensor_name][k]
             = Pack(GetLastValue(history[call.sensor_name]),
                    call.pairs[LastIndexOf(k)].value)
       /\ \A k \in Keys(pre.data[call.sensor_name]) \ GivenKeys :
             data[call.sensor_name][k] = pre.data[call.sensor_name][k]

\* A batch that repeats a stored key was written to a sensor that also held
\* another key.
C26_Witness ==
    /\ pc = "returned"
    /\ call.op = "Sensor.write_values"
    /\ ret.val = "True"
    /\ Len(call.pairs) > Cardinality(GivenKeys)
    /\ GivenKeys \subseteq Keys(pre.data[call.sensor_name])
    /\ Keys(pre.data[call.sensor_name]) \ GivenKeys # {}

\* C27: when write_values (LMDBDict.update) raises at a pair whose value
\* cannot be packed, the pairs put before it remain stored after the call.
C27_PriorPairsRemain ==
    (pc = "returned" /\ call.op = "Sensor.write_values"
     /\ ret.val = "ValueError")
    => \A i \in 1..Len(call.pairs) :
          (\A j \in 1..i :
              CanPack(GetLastValue(history[call.sensor_name]),
                      call.pairs[j].value))
          => /\ call.pairs[i].date \in Keys(data[call.sensor_name])
             /\ data[call.sensor_name][call.pairs[i].date]
                = Pack(GetLastValue(history[call.sensor_name]),
                       call.pairs[i].value)

\* C28: every public operation that commits a write transaction calls the
\* environment's sync() after the commit and before it returns: a call that
\* starts with everything synced returns with everything synced.
C28_SyncAfterEveryCommit ==
    (pc = "returned" /\ pre.synced) => synced

\* C29: a read never takes the environment's writer lock: a thread iterating a
\* timespan read holds no write transaction, a write that another thread is
\* about to begin can begin while the read iterates, and a read that is about
\* to begin can begin while another thread's write is running.
C29_ReadsTakeNoWriterLock ==
    \A t \in Threads :
        /\ threads[t].pc = "reading"
           => \A i \in 1..Len(txns[t]) : txns[t][i] # "write"
        /\ \A u \in Threads \ {t} :
              /\ (threads[t].pc = "reading" /\ threads[u].pc = "wr_begin")
                 => WriterLockFree(u)
              /\ (threads[t].pc = "wr_put" /\ threads[u].pc = "rd_begin")
                 => WriterLockFree(u)

\* C30: no thread calls env.open_db while it has a transaction open on the
\* environment.
C30_OpenDbOutsideTransactions ==
    \A t \in Threads :
        threads[t].pc \in {"rd_open_db", "wr_open_db", "sv_open_db"}
        => txns[t] = <<>>

\* The keys of the maximal trailing run of s: every entry from the key to the
\* end holds the value of the last entry.
TrailingRun(s) ==
    {k \in Keys(s) : \A j \in Keys(s) : j >= k => s[j] = s[CursorLast(s)]}

\* C31: get_last_changed() returns the oldest timestamp of the maximal trailing
\* run of entries equal to the last entry when an earlier entry differs, and
\* None when the store is missing, empty or holds one value throughout; it
\* changes nothing.
C31_LastChangedIsStartOfTrailingRun ==
    (pc = "returned" /\ call.op = "get_last_changed")
    => /\ ret.rows[1] = IF pre.dbExists /\ TrailingRun(pre.store) # Keys(pre.store)
                        THEN MinOf(TrailingRun(pre.store))
                        ELSE None
       /\ store = pre.store
       /\ dbExists = pre.dbExists

\* A trailing run of two entries after a differing entry was found.
C31_Witness ==
    /\ pc = "returned"
    /\ call.op = "get_last_changed"
    /\ Cardinality(TrailingRun(pre.store)) = 2
    /\ Cardinality(Keys(pre.store)) >= 3
    /\ ret.rows[1] = MinOf(TrailingRun(pre.store))

\* C32: every stored note is a mapping with a non-empty `short` string, and a
\* write rejected with TypeError or AssertionError leaves the notes and the
\* sub-stores unchanged.
C32_NotesAreValid ==
    /\ \A n \in SensorNames : \A k \in Keys(notes[n]) :
          /\ IsDict(notes[n][k])
          /\ "short" \in DOMAIN notes[n][k]
          /\ notes[n][k].short # ""
    /\ (pc = "returned" /\ ret.val \in {"TypeError", "AssertionError"})
       => (notes = pre.notes /\ subdbs = pre.subdbs)

\* The sum of the values stored in s at the keys lo..hi.
RECURSIVE SumOver(_, _, _)
SumOver(s, lo, hi) == IF lo > hi THEN 0 ELSE s[lo] + SumOver(s, lo + 1, hi)

\* The decimated read of the test: 100 samples, windows of 7 seconds.
DecimateCall ==
    /\ pc = "returned"
    /\ call.op = "items(decimate_to_s)"
    /\ call.limit = 7
    /\ Keys(pre.store) = 0..99

\* C33 as stated: 13 windows, the k-th with the mean of values[7k:7k+7] and the
\* timestamp t_k + 3.5 s (7 half seconds after t_k).
C33_ThirteenWindows ==
    DecimateCall
    => /\ Len(ret.rows) = 13
       /\ \A k \in 0..12 :
             /\ ret.rows[k + 1][2].num * 7
                = ret.rows[k + 1][2].den * SumOver(pre.store, 7 * k, 7 * k + 6)
             /\ ret.rows[k + 1][1] = 2 * (7 * k) + 7

\* C33 amended: 14 windows, the k-th with the mean of values[7k:7k+7] and the
\* timestamp t_k + 3 s, half way between the window's first and last sample;
\* the samples 98 and 99 of the unfinished last window are not returned.
C33_FourteenWindows ==
    DecimateCall
    => /\ Len(ret.rows) = 14
       /\ \A k \in 0..13 :
             /\ ret.rows[k + 1][2].num * 7
                = ret.rows[k + 1][2].den * SumOver(pre.store, 7 * k, 7 * k + 6)
             /\ ret.rows[k + 1][1] = 2 * (7 * k) + 6

C33_Witness == DecimateCall /\ Len(ret.rows) = 14

\* The keys of the span a chunked read covers.
SpanKeys ==
    {k \in Keys(pre.store) :
        /\ call.since # None => k >= call.since
        /\ call.until # None => k <= call.until}

\* C34: the windows of a decimated read partition the samples of the span:
\* each window holds exactly the samples in [s, s + bucket) for its first
\* sample s, the windows are in time order, and every sample of the span is in
\* exactly one window.
C34_WindowsPartitionTheSpan ==
    (pc = "returned" /\ call.op = "_get_timespan_chunked" /\ ret.val = "ok")
    => /\ \A w \in 1..Len(ret.rows) :
             /\ ret.rows[w].dates # <<>>
             /\ Range(ret.rows[w].dates)
                = {k \in SpanKeys : /\ k >= ret.rows[w].dates[1]
                                    /\ k < ret.rows[w].dates[1] + call.limit}
             /\ w > 1 => \A k \in Range(ret.rows[w - 1].dates) :
                            k < ret.rows[w].dates[1]
       /\ \A k \in SpanKeys :
             Cardinality({w \in 1..Len(ret.rows) :
                             k \in Range(ret.rows[w].dates)}) = 1

\* Byte-lexicographic order of two byte strings of one length.
BytesLess(a, b) ==
    \E i \in 1..Len(a) : a[i] < b[i] /\ \A j \in 1..(i - 1) : a[j] = b[j]

\* C35: for instants t1 < t2 at or after the epoch, pack(t1) has 8 bytes and is
\* byte-lexicographically smaller than pack(t2), and unpack(pack(t1)) = t1; an
\* instant before the epoch is rejected by pack.
C35_PackIsMonotoneAndInvertible ==
    (pc = "returned" /\ call.op = "DatetimePacker.pack")
    => /\ call.since < 0 => ret.val = "struct.error"
       /\ call.since >= 0
          => /\ ret.val = "ok"
             /\ Len(ret.rows[1]) = 8
             /\ ret.rows[3] = call.since
             /\ call.since < call.until => BytesLess(ret.rows[1], ret.rows[2])

\* C36: delete_entries(since, until) leaves every entry before since or after
\* until as it was.
C36_OutsideTheWindowUnchanged ==
    (pc = "returned" /\ call.op = "delete_entries")
    => \A k \in Keys(pre.store) :
          (\/ (call.since # None /\ k < call.since)
           \/ (call.until # None /\ k > call.until))
          => (k \in Keys(store) /\ store[k] = pre.store[k])

RECURSIVE Merges(_, _)
Merges(a, b) ==
    IF a = <<>> THEN {b}
    ELSE IF b = <<>> THEN {a}
    ELSE {<<a[1]>> \o m : m \in Merges(Tail(a), b)}
         \cup {<<b[1]>> \o m : m \in Merges(a, Tail(b))}

\* Whether running the calls of `order` one after another on s gives every call
\* the flag it has in `order` and ends with the store `final`.
RECURSIVE RunsTo(_, _, _)
RunsTo(s, order, final) ==
    IF order = <<>> THEN s = final
    ELSE LET e == order[1]
             skipped == WriteSkipped(s, e.date, e.value, TRUE, None)
         IN  /\ e.result = ~skipped
             /\ RunsTo(IF skipped THEN s ELSE Put(s, e.date, BytesPack(e.value)),
                       Tail(order), final)

C39_FailedWriteChangesNothing ==
    (/\ pc = "returned"
     /\ call.op \in {"Sensor.write_value", "Sensor.write_values"}
     /\ ret.val = "ValueError")
    => /\ subdbs = pre.subdbs
       /\ data = pre.data
       /\ history = pre.history
       /\ views = pre.views

\* C40: a successful copy_to changes only the destination sub-stores: the
\* contents of the source sub-stores, the set of sub-stores existing under the
\* source name and all other sub-stores are as before.
C40_CopyChangesOnlyDestination ==
    /\ (/\ pc = "returned"
        /\ call.op = "Sensor.copy_to"
        /\ ret.val = "None"
        /\ call.sensor_name # call.sensor_names[1])
       => /\ data[call.sensor_name] = pre.data[call.sensor_name]
          /\ meta[call.sensor_name] = pre.meta[call.sensor_name]
          /\ history[call.sensor_name] = pre.history[call.sensor_name]
          /\ notes[call.sensor_name] = pre.notes[call.sensor_name]
          /\ subdbs \ SensorDbs(call.sensor_names[1])
             = pre.subdbs \ SensorDbs(call.sensor_names[1])
    /\ (pc = "returned" /\ call.op = "Sensor.copy_to(file)" /\ ret.val = "None")
       => /\ data = pre.data
          /\ meta = pre.meta
          /\ history = pre.history
          /\ notes = pre.notes
          /\ subdbs = pre.subdbs
          /\ ret.rows[1].subdbs \ SensorDbs(call.sensor_names[1])
             = call.target.subdbs \ SensorDbs(call.sensor_names[1])
          /\ \A n \in SensorNames \ {call.sensor_names[1]} :
                /\ ret.rows[1].data[n] = call.target.data[n]
                /\ ret.rows[1].meta[n] = call.target.meta[n]
                /\ ret.rows[1].history[n] = call.target.history[n]
                /\ ret.rows[1].notes[n] = call.target.notes[n]

=============================================================================
